---- MODULE Spec2Model ----
(***************************************************************************)
(* CLIProxyAPI-Monitor: the usage-analytics dashboard.                     *)
(*                                                                         *)
(* State machine of the Event Store (usage_records), the ingestion         *)
(* deduplicator (/api/sync), the response cache in front of the query      *)
(* layer, the explore sampler and the window resolution of getOverview.    *)
(*                                                                         *)
(* The sync handler, the response cache and lib/queries/explore are        *)
(* described by the repository's documents only; their definitions follow  *)
(* spec.md sections 4.1, 4.3, 4.4 and 5 and the SQL of the architecture    *)
(* document.  The window resolution follows lib/queries/overview.ts.       *)
(*                                                                         *)
(* Further parts: the login route with its lockout records, the cron job   *)
(* of initCronJobs, doSync and the loadOverview effect of the dashboard     *)
(* page, and handleEditSave of the price settings.  The /api/prices        *)
(* handler is described by spec.md section 6 only.                         *)
(***************************************************************************)
EXTENDS Integers, Sequences, FiniteSets, TLC

VARIABLES
    usage_records,  \* the Event Store: the rows in insertion order
    sync,           \* per caller of /api/sync: position in its batch, its counters
    reported,       \* history: rows each caller was told it inserted, in total
    lastRun,        \* history: the report of the last sequential ingestion
    cache,          \* the Response Cache: entries in insertion order
    now,            \* the wall clock, in milliseconds
    query,          \* per query request: position in the cache wrapper
    lastClear,      \* history: the last ingestion that cleared the cache
    lastResp,       \* history: what the cache wrapper did last
    explore,        \* the explore request and its last response
    win,            \* the overview request and its resolved window
    overview,       \* the last response of GET /api/overview
    model_prices,   \* the Price Table: the rows of model_prices
    lastUpsert,     \* history: per model, its price writes and the row last upserted
    pending,        \* the overview request in flight, with the prices it has read
    PASSWORD,       \* process.env.PASSWORD, as a string of characters
    failedAttempts, \* the Map of the login route: ip -> reference of its record
    attemptRecords, \* the record objects the login route has created
    logins,         \* per handler of POST /api/auth/verify: its position
    loginResp,      \* history: the last response of the login route
    cron,           \* the scheduled task of initCronJobs
    syncingRef,     \* syncingRef.current of the dashboard page
    syncFetch,      \* the /api/sync requests of doSync
    loads,          \* the runs of the loadOverview effect, oldest first
    shown,          \* the overview state the dashboard page displays
    prices,         \* the price list the settings page displays
    edit            \* handleEditSave: its position

authVars == <<PASSWORD, failedAttempts, attemptRecords, logins, loginResp>>
pageVars == <<syncingRef, syncFetch, loads, shown>>
settingsVars == <<lastUpsert, pending, prices, edit>>
clientVars == <<authVars, cron, pageVars, settingsVars>>

vars == <<usage_records, sync, reported, lastRun, cache, now, query, lastClear, lastResp,
          explore, win, overview, model_prices, clientVars>>

ingestVars == <<usage_records, sync, reported, lastRun>>
cacheVars == <<cache, now, query, lastClear, lastResp>>

(***************************************************************************)
(* Bounds of the model.                                                    *)
(***************************************************************************)
MaxBatch == 2          \* events of one validated batch
MaxOccurredAt == 2     \* timestamps of the events a batch may carry
MAX_CACHE_ENTRIES == 2 \* cache capacity (100 in the documents), scaled down
TickMs == 15000        \* granularity of the clock
MaxNow == 45000        \* the clock stops here

CACHE_TTL_MS == 30000

None == [none |-> TRUE]

\* The callers of /api/sync: the cron job and the dashboard page.
Syncs == {"cron", "dashboard"}
\* Concurrent requests to the query API, and the query signatures they use.
Queries == {"q1", "q2"}
CacheKeys == {"k1", "k2", "k3"}

(***************************************************************************)
(* Ingestion deduplicator.                                                 *)
(***************************************************************************)

\* A validated usage event as it reaches storage.
Events == [occurredAt : 1..MaxOccurredAt, route : {"r1"}, model : {"m1"},
           totalRequests : {1}]

RECURSIVE SeqsUpTo(_, _)
SeqsUpTo(S, n) ==
    IF n = 0 THEN {<<>>}
    ELSE LET shorter == SeqsUpTo(S, n - 1)
         IN shorter \cup {Append(s, e) : s \in {t \in shorter : Len(t) = n - 1}, e \in S}

Batches == SeqsUpTo(Events, MaxBatch)

\* The uniqueness constraint: (occurredAt, route, model).
SameKey(r, e) ==
    /\ r.occurredAt = e.occurredAt
    /\ r.route = e.route
    /\ r.model = e.model

HasConflict(rows, e) == \E i \in 1..Len(rows) : SameKey(rows[i], e)

ToRow(e, by) == [occurredAt |-> e.occurredAt, route |-> e.route, model |-> e.model,
                 totalRequests |-> e.totalRequests, syncedBy |-> by]

\* A mutant of the insert: a plain INSERT, without ON CONFLICT DO NOTHING.
InsertRowPlain(rows, e, by) == Append(rows, ToRow(e, by))

\* INSERT ... ON CONFLICT DO NOTHING of one row.
InsertRow(rows, e, by) ==
    IF HasConflict(rows, e) THEN rows ELSE Append(rows, ToRow(e, by))

\* A mutant of the cache invalidation: the sync never clears the cache.
ClearOnInsertNever(c, inserted) == c

\* New rows clear the Response Cache.
ClearOnInsert(c, inserted) == IF inserted > 0 THEN <<>> ELSE c

\* A mutant of the report: attempted counts the distinct events of the batch.
AttemptedDistinct(B) == Cardinality({B[i] : i \in 1..Len(B)})

\* attempted: every event of the validated batch is one insert attempt.
Attempted(B) == Len(B)

IdleSync == [pc |-> "idle", batch |-> <<>>, idx |-> 0, inserted |-> 0]

\* /api/sync receives a validated batch.
SyncStart(s, B) ==
    /\ sync[s].pc = "idle"
    /\ sync' = [sync EXCEPT ![s] = [pc |-> "inserting", batch |-> B, idx |-> 1,
                                    inserted |-> 0]]
    /\ UNCHANGED <<usage_records, reported, lastRun, cacheVars, explore, win, overview,
                   model_prices, clientVars>>

\* A mutant of the insert step: duplicates are looked for among the caller's own
\* rows only, not by the unique index of the table.
SyncInsertRowOwnRows(s) ==
    /\ sync[s].pc = "inserting"
    /\ sync[s].idx <= Len(sync[s].batch)
    /\ LET e == sync[s].batch[sync[s].idx]
           Own(r) == r.syncedBy = s
           rows == IF HasConflict(SelectSeq(usage_records, Own), e)
                   THEN usage_records
                   ELSE Append(usage_records, ToRow(e, s))
       IN /\ usage_records' = rows
          /\ sync' = [sync EXCEPT ![s].idx = @ + 1,
                                  ![s].inserted = @ + Len(rows) - Len(usage_records)]
    /\ UNCHANGED <<reported, lastRun, cacheVars, explore, win, overview, model_prices, clientVars>>

\* One row of the batch insert: skipped on a conflict with the unique index.
SyncInsertRow(s) ==
    /\ sync[s].pc = "inserting"
    /\ sync[s].idx <= Len(sync[s].batch)
    /\ LET e == sync[s].batch[sync[s].idx]
           rows == InsertRow(usage_records, e, s)
       IN /\ usage_records' = rows
          /\ sync' = [sync EXCEPT ![s].idx = @ + 1,
                                  ![s].inserted = @ + Len(rows) - Len(usage_records)]
    /\ UNCHANGED <<reported, lastRun, cacheVars, explore, win, overview, model_prices, clientVars>>

NoClear == [rows |-> 0, at |-> 0, n |-> 0]

\* The response { attempted, inserted }; new rows clear the Response Cache.
SyncDone(s) ==
    /\ sync[s].pc = "inserting"
    /\ sync[s].idx > Len(sync[s].batch)
    /\ reported' = [reported EXCEPT ![s] = @ + sync[s].inserted]
    /\ sync' = [sync EXCEPT ![s] = IdleSync]
    /\ cache' = ClearOnInsert(cache, sync[s].inserted)
    /\ lastClear' = IF sync[s].inserted > 0
                    THEN [rows |-> Len(usage_records), at |-> now, n |-> lastClear.n + 1]
                    ELSE lastClear
    /\ UNCHANGED <<usage_records, now, query, lastResp, explore, win, overview,
                   model_prices, clientVars>>

SyncFinish(s) == SyncDone(s) /\ UNCHANGED lastRun

\* The same, with the caller keeping the report beside that of the run before.
SyncFinishLogged(s) ==
    /\ SyncDone(s)
    /\ lastRun' = [batch |-> sync[s].batch,
                   attempted |-> Attempted(sync[s].batch),
                   inserted |-> sync[s].inserted,
                   rows |-> Len(usage_records),
                   sameAsPrev |-> lastRun # None /\ lastRun.batch = sync[s].batch,
                   prevRows |-> IF lastRun = None THEN 0 ELSE lastRun.rows,
                   prevInserted |-> IF lastRun = None THEN 0 ELSE lastRun.inserted]


(***************************************************************************)
(* Response Cache.                                                         *)
(***************************************************************************)

\* The entry stored under a key, or None.
Find(c, k) ==
    IF \E i \in 1..Len(c) : c[i].key = k
    THEN c[CHOOSE i \in 1..Len(c) : c[i].key = k]
    ELSE None

Drop(c, k) ==
    LET Keep(e) == e.key # k
    IN SelectSeq(c, Keep)

\* A mutant of the TTL check: an entry is still served at age TTL.
IsFreshInclusive(e, t) == t - e.ts <= CACHE_TTL_MS

\* Date.now() - cached.timestamp < TTL
IsFresh(e, t) == t - e.ts < CACHE_TTL_MS

\* A mutant of the eviction: the newest entry is removed.
EvictNewest(c) == IF Len(c) > MAX_CACHE_ENTRIES THEN SubSeq(c, 1, Len(c) - 1) ELSE c

\* Capacity: the entry inserted first is removed.
Evict(c) == IF Len(c) > MAX_CACHE_ENTRIES THEN Tail(c) ELSE c

\* cache.set(key, { data, timestamp: Date.now() })
Put(c, k, v, t) == Evict(Append(Drop(c, k), [key |-> k, val |-> v, ts |-> t]))

\* A mutant of the read path: a hit moves the entry to the young end (LRU).
TouchLRU(c, k) == Append(Drop(c, k), Find(c, k))

\* A mutant of the read path: a hit restarts the entry's TTL (sliding expiry).
TouchRefresh(c, k) ==
    [i \in 1..Len(c) |-> IF c[i].key = k THEN [c[i] EXCEPT !.ts = now] ELSE c[i]]

\* A read hit leaves the cache as it is.
Touch(c, k) == c

IdleQuery == [pc |-> "idle", key |-> "k1", val |-> 0, ep |-> 0]

\* op: what was done; ts: insertion time of the entry; at: time of the response;
\* n: number of cache clears by ingestion when the request arrived.
NoResp == [op |-> "none", key |-> "k1", val |-> 0, ts |-> 0, at |-> 0, n |-> 0,
           evicted |-> FALSE]

\* A request arrives: cache lookup by the query signature.
QueryLookup(q, k) ==
    /\ query[q].pc = "idle"
    /\ LET e == Find(cache, k)
       IN IF e # None /\ IsFresh(e, now)
          THEN /\ query' = query
               /\ cache' = Touch(cache, k)
               /\ lastResp' = [op |-> "hit", key |-> k, val |-> e.val, ts |-> e.ts,
                               at |-> now, n |-> lastClear.n, evicted |-> FALSE]
          ELSE /\ query' = [query EXCEPT ![q] =
                     [pc |-> "computing", key |-> k, val |-> 0, ep |-> lastClear.n]]
               /\ cache' = Drop(cache, k)
               /\ lastResp' = [op |-> IF e # None THEN "expired" ELSE "miss", key |-> k,
                               val |-> 0, ts |-> IF e # None THEN e.ts ELSE 0,
                               at |-> now, n |-> lastClear.n, evicted |-> FALSE]
    /\ UNCHANGED <<ingestVars, now, lastClear, explore, win, overview, model_prices, clientVars>>

\* The miss path: the aggregation reads the Event Store.
QueryRead(q) ==
    /\ query[q].pc = "computing"
    /\ query' = [query EXCEPT ![q].pc = "storing", ![q].val = Len(usage_records)]
    /\ UNCHANGED <<ingestVars, cache, now, lastClear, lastResp, explore, win, overview,
                   model_prices, clientVars>>

\* The miss path: the result is stored and returned.
QueryStore(q) ==
    /\ query[q].pc = "storing"
    /\ cache' = Put(cache, query[q].key, query[q].val, now)
    /\ lastResp' = [op |-> "store", key |-> query[q].key, val |-> query[q].val, ts |-> now,
                    at |-> now, n |-> query[q].ep,
                    evicted |-> Len(Drop(cache, query[q].key)) + 1 > MAX_CACHE_ENTRIES]
    /\ query' = [query EXCEPT ![q] = IdleQuery]
    /\ UNCHANGED <<ingestVars, now, lastClear, explore, win, overview, model_prices, clientVars>>

\* Time passes.
Tick ==
    /\ now + TickMs <= MaxNow
    /\ now' = now + TickMs
    /\ UNCHANGED <<ingestVars, cache, query, lastClear, lastResp, explore, win, overview,
                   model_prices, clientVars>>

InitIngest ==
    /\ usage_records = <<>>
    /\ sync = [s \in Syncs |-> IdleSync]
    /\ reported = [s \in Syncs |-> 0]
    /\ lastRun = None

InitCache ==
    /\ cache = <<>>
    /\ now = 0
    /\ query = [q \in Queries |-> IdleQuery]
    /\ lastClear = NoClear
    /\ lastResp = NoResp

\* Clients of POST /api/auth/verify, and the requests the route serves at once.
IPs == {"ip1"}
Handlers == {"h1", "h2"}

NoLoginResp == [n |-> 0, ip |-> "ip1", typed |-> <<>>, header |-> FALSE, code |-> 0,
                cookie |-> None, isLocked |-> FALSE, onArrival |-> FALSE]
IdleLogin == [pc |-> "idle", ip |-> "ip1", typed |-> <<>>, header |-> FALSE, record |-> 0]
IdleCron == [ticks |-> 0, fetches |-> 0, running |-> 0, log |-> <<>>, rejected |-> 0,
             scheduled |-> TRUE]
NoFetch == [issued |-> 0, inFlight |-> 0, skipped |-> 0, phase |-> "none", resOk |-> FALSE,
            syncStatus |-> "none"]
NoShown == [overview |-> 0, from |-> 0, overviewError |-> FALSE, currentPage |-> 1,
            params |-> 0]
IdleEdit == [pc |-> "idle", editing |-> "", payload |-> None, before |-> <<>>,
             editStatus |-> "none"]

\* The login route, the cron job, the dashboard page and the settings page
\* before their first request.
InitAuth ==
    /\ failedAttempts = [ip \in IPs |-> 0]
    /\ attemptRecords = <<>>
    /\ logins = [h \in Handlers |-> IdleLogin]
    /\ loginResp = NoLoginResp

InitClient ==
    /\ PASSWORD = <<"a">>
    /\ InitAuth
    /\ cron = IdleCron
    /\ syncingRef = FALSE
    /\ syncFetch = NoFetch
    /\ loads = <<>>
    /\ shown = NoShown
    /\ prices = <<>>
    /\ edit = IdleEdit
    /\ lastUpsert = None
    /\ pending = None

InitRest ==
    /\ explore = None
    /\ win = None
    /\ overview = None
    /\ model_prices = <<>>
    /\ InitClient

Init == InitIngest /\ InitCache /\ InitRest

\* Concurrent sync cycles of the two callers.
Next ==
    \/ \E s \in Syncs, B \in Batches : SyncStart(s, B)
    \/ \E s \in Syncs : SyncInsertRow(s)
    \/ \E s \in Syncs : SyncFinish(s)

Spec == Init /\ [][Next]_vars

(***************************************************************************)
(* C2. Under any interleaving of the sync cycles of the two callers, with  *)
(* overlapping batches and no lock, the Event Store never holds two rows   *)
(* with the same (occurredAt, route, model); every event a cycle has       *)
(* attempted is stored exactly once; and every stored row is counted as    *)
(* inserted by exactly one caller (the rows a caller inserted are the rows *)
(* it reported plus those of its running cycle).                           *)
(***************************************************************************)
RowsOf(s) == {i \in 1..Len(usage_records) : usage_records[i].syncedBy = s}

C2_UniqueUnderInterleaving ==
    /\ \A i, j \in 1..Len(usage_records) :
          i # j => ~SameKey(usage_records[i], usage_records[j])
    /\ \A s \in Syncs : \A i \in 1..Len(sync[s].batch) :
          i < sync[s].idx =>
             Cardinality({j \in 1..Len(usage_records) :
                             SameKey(usage_records[j], sync[s].batch[i])}) = 1
    /\ \A s \in Syncs : Cardinality(RowsOf(s)) = reported[s] + sync[s].inserted
    /\ \A s \in Syncs : sync[s].inserted <= Len(sync[s].batch)

\* Both callers have run overlapping batches to the end, and each inserted a row.
C2_Witness ==
    /\ \A s \in Syncs : /\ sync[s].pc = "inserting"
                         /\ sync[s].idx > Len(sync[s].batch)
                         /\ sync[s].inserted >= 1
    /\ \E i \in 1..Len(sync["cron"].batch), j \in 1..Len(sync["dashboard"].batch) :
          SameKey(sync["cron"].batch[i], sync["dashboard"].batch[j])

\* Sync cycles in sequence: one caller.
NextRepeat ==
    \/ \E B \in Batches : SyncStart("cron", B)
    \/ SyncInsertRow("cron")
    \/ SyncFinishLogged("cron")

SpecRepeat == Init /\ [][NextRepeat]_vars

(***************************************************************************)
(* C1. Idempotent ingestion: every run reports attempted = |B|; a run of   *)
(* the batch that the run before it ingested reports inserted = 0 and      *)
(* leaves the row count of the Event Store as the first run left it.       *)
(***************************************************************************)
C1_IdempotentIngestion ==
    lastRun # None =>
        /\ lastRun.attempted = Len(lastRun.batch)
        /\ lastRun.sameAsPrev =>
              /\ lastRun.inserted = 0
              /\ lastRun.rows = lastRun.prevRows

\* A full batch was ingested twice in sequence, and the first run inserted rows.
C1_Witness ==
    /\ lastRun # None
    /\ lastRun.sameAsPrev
    /\ lastRun.prevInserted > 0
    /\ Len(lastRun.batch) = MaxBatch

\* One request at a time through the cache, the clock, and the scheduled sync
\* with batches of at most one event.
NextCache ==
    \/ \E k \in CacheKeys : QueryLookup("q1", k)
    \/ QueryRead("q1")
    \/ QueryStore("q1")
    \/ Tick
    \/ \E B \in {b \in Batches : Len(b) <= 1} : SyncStart("cron", B)
    \/ SyncInsertRow("cron")
    \/ SyncFinish("cron")

SpecCache == Init /\ [][NextCache]_vars

\* Concurrent requests through the cache over an unchanged Event Store.
NextEvict ==
    \/ \E q \in Queries, k \in CacheKeys : QueryLookup(q, k)
    \/ \E q \in Queries : QueryRead(q)
    \/ \E q \in Queries : QueryStore(q)
    \/ Tick

SpecEvict == Init /\ [][NextEvict]_vars

\* The steps of the cache wrapper, as seen in its history.
Looked == lastResp' # lastResp /\ lastResp'.op \in {"hit", "miss", "expired"}
Served == lastResp' # lastResp /\ lastResp'.op \in {"hit", "store"}

DAY_MS == 86400000

\* Instants are counted in seconds from the epoch of the model; the day and the
\* hour in that unit.  23:59:59.999 is the last second of its day.
DAY == DAY_MS \div 1000
HOUR == DAY \div 24

\* The calendar day (UTC, counted from the epoch of the model) of the requests.
WinToday == 15
\* Date.now(), in milliseconds, at which a request may arrive.
WinNows == {WinToday * DAY_MS + 9 * (DAY_MS \div 24), WinToday * DAY_MS + DAY_MS - 1}

\* The host's time zone: the offset from UTC in hours, outside and during
\* daylight saving time, and the instant at which daylight saving time ends.
FixedZone(h) == [std |-> h, dst |-> h, dstEnd |-> 0]
HostZones ==
    {FixedZone(0), FixedZone(8),
     [std |-> -5, dst |-> -4, dstEnd |-> (WinToday - 7) * DAY + 6 * HOUR]}

\* The offset of local time from UTC at instant t, in seconds.
ZoneOffset(z, t) == (IF t < z.dstEnd THEN z.dst ELSE z.std) * HOUR

\* The instant at which the host's clock shows the wall time w, for a w near t.
FromWall(z, w, t) ==
    LET guess == w - ZoneOffset(z, t)
    IN IF ZoneOffset(z, guess) = ZoneOffset(z, t) THEN guess
       ELSE w - ZoneOffset(z, guess)

\* ?days= after Number.parseInt: absent, not a number, or an integer.
MaxDaysInput == 15
DaysInputs ==
    {[kind |-> "undefined", v |-> 0], [kind |-> "NaN", v |-> 0]}
        \cup {[kind |-> "num", v |-> n] : n \in {0, 1, 14, MaxDaysInput}}

\* ?start= and ?end=: absent, unparseable, or a YYYY-MM-DD date.
DateInputs ==
    {[kind |-> "absent", day |-> 0], [kind |-> "invalid", day |-> 0]}
        \cup {[kind |-> "date", day |-> d] :
                 d \in {WinToday - 14, WinToday - 13, WinToday - 1, WinToday}}

Max(a, b) == IF a >= b THEN a ELSE b
Min(a, b) == IF a <= b THEN a ELSE b

\* A mutant of normalizeDays: no upper clamp.
normalizeDaysNoCap(d) ==
    IF d.kind # "num" THEN 14 ELSE Max(d.v, 1)

\* Math.floor is the identity on the integers Number.parseInt returns.
normalizeDays(d) ==
    IF d.kind # "num" THEN 14 ELSE Min(Max(d.v, 1), 90)

NoDate == [valid |-> FALSE, t |-> 0]

\* new Date("YYYY-MM-DD") is midnight UTC of that day; null when unparseable.
parseDateInput(x) ==
    IF x.kind = "date" THEN [valid |-> TRUE, t |-> x.day * DAY] ELSE NoDate

\* setHours(0, 0, 0, 0): midnight of the host's local day that holds t.
withDayStart(t, z) ==
    LET wall == t + ZoneOffset(z, t)
    IN FromWall(z, wall - (wall % DAY), t)

\* setHours(23, 59, 59, 999)
withDayEnd(t, z) ==
    LET wall == t + ZoneOffset(z, t)
    IN FromWall(z, wall - (wall % DAY) + DAY - 1, t)

\* Math.round(x / DAY_MS), x >= 0
RoundDays(x) == (x \div DAY) + (IF 2 * (x % DAY) >= DAY THEN 1 ELSE 0)

NoReq == [days |-> [kind |-> "undefined", v |-> 0],
          start |-> [kind |-> "absent", day |-> 0],
          end |-> [kind |-> "absent", day |-> 0]]

NoWindow(tz) == [tz |-> tz, resolved |-> FALSE, req |-> NoReq, at |-> 0,
                 hasCustomRange |-> FALSE, days |-> 0, since |-> 0,
                 hasUntil |-> FALSE, until |-> 0]

\* A mutant of the range test: a range with end before start is kept.
HasCustomRangeUnordered(startDate, endDate) == startDate.valid /\ endDate.valid

\* startDate && endDate && endDate >= startDate
HasCustomRange(startDate, endDate) ==
    startDate.valid /\ endDate.valid /\ endDate.t >= startDate.t

\* The days of the window: of the explicit range from the first instant of its
\* first day to the last instant of its last day, else of the days parameter.
SpanDays(hasCustomRange, first, last, daysInput) ==
    IF hasCustomRange THEN Max(1, RoundDays(last - first) + 1)
    ELSE normalizeDays(daysInput)

\* The window of getOverview(daysInput, { start, end }) at Date.now() = t (ms).
ResolveWindow(tz, t, daysInput, start, end) ==
    LET startDate == parseDateInput(start)
        endDate == parseDateInput(end)
        hasCustomRange == HasCustomRange(startDate, endDate)
        first == IF hasCustomRange THEN withDayStart(startDate.t, tz) ELSE 0
        last == IF hasCustomRange THEN withDayEnd(endDate.t, tz) ELSE 0
        days == SpanDays(hasCustomRange, first, last, daysInput)
    IN [tz |-> tz, resolved |-> TRUE,
        req |-> [days |-> daysInput, start |-> start, end |-> end], at |-> t,
        hasCustomRange |-> hasCustomRange,
        days |-> days,
        since |-> IF hasCustomRange THEN first ELSE (t \div 1000) - days * DAY,
        hasUntil |-> hasCustomRange,
        until |-> last]

(***************************************************************************)
(* Aggregation of getOverview.                                             *)
(*                                                                         *)
(* Token counts are integers.  Rates are counted in tenths of a dollar per *)
(* million tokens and costs in tenths of a millionth of a dollar, so that  *)
(* tokens * rate is the cost without a division.                           *)
(***************************************************************************)

CENT == 100000          \* toFixed(2): one cent, in cost units
CENT_100TH == 1000      \* toFixed(4)

ModelNames == <<"m1", "m2">>     \* in ORDER BY model order
RouteNames == <<"r1", "r2">>     \* in ORDER BY route order

RECURSIVE SumSeq(_)
SumSeq(s) == IF s = <<>> THEN 0 ELSE Head(s) + SumSeq(Tail(s))

\* sum(column) over rows
SumOf(rows, f) == SumSeq([i \in 1..Len(rows) |-> rows[i][f]])

\* The members of a set of integers in ascending order.
RECURSIVE Ascending(_)
Ascending(S) ==
    IF S = {} THEN <<>>
    ELSE LET m == CHOOSE x \in S : \A y \in S : x <= y
         IN <<m>> \o Ascending(S \ {m})

\* Number(x.toFixed(digits)): x rounded to the nearest multiple of unit.
ToFixed(x, unit) ==
    IF x >= 0 THEN ((x + unit \div 2) \div unit) * unit
    ELSE 0 - (((0 - x) + unit \div 2) \div unit) * unit

\* gte(occurredAt, since) [and lte(occurredAt, until)]
baseWhere(r, w) ==
    /\ r.occurredAt >= w.since
    /\ w.hasUntil => r.occurredAt <= w.until

\* baseWhere and eq(model) and eq(route), for the filters that are given
filterWhere(r, w, model, route) ==
    /\ baseWhere(r, w)
    /\ model # "" => r.model = model
    /\ route # "" => r.route = route

Where(rows, w, model, route) ==
    LET Keep(r) == filterWhere(r, w, model, route)
    IN SelectSeq(rows, Keep)

WhereBase(rows, w) ==
    LET Keep(r) == baseWhere(r, w)
    IN SelectSeq(rows, Keep)

\* date_trunc('day' / 'hour', occurred_at at time zone 'Asia/Shanghai'): the
\* number of the day, and of the hour, in that zone.
dayExpr(t) == (t + 8 * HOUR) \div DAY
hourExpr(t) == (t + 8 * HOUR) \div HOUR

OfModel(rows, m) ==
    LET Keep(r) == r.model = m
    IN SelectSeq(rows, Keep)

OfRoute(rows, x) ==
    LET Keep(r) == r.route = x
    IN SelectSeq(rows, Keep)

OfDay(rows, d) ==
    LET Keep(r) == dayExpr(r.occurredAt) = d
    IN SelectSeq(rows, Keep)

OfHour(rows, h) ==
    LET Keep(r) == hourExpr(r.occurredAt) = h
    IN SelectSeq(rows, Keep)

\* The names of a list that some row carries in column f, in the list's order.
Present(names, rows, f) ==
    LET Keep(n) == \E i \in 1..Len(rows) : rows[i][f] = n
    IN SelectSeq(names, Keep)

\* .limit(n).offset(k)
LimitOffset(s, n, k) ==
    IF k >= Len(s) THEN <<>> ELSE SubSeq(s, k + 1, Min(k + n, Len(s)))

\* totalsPromise
TotalsOf(rows) ==
    [totalRequests |-> SumOf(rows, "totalRequests"),
     totalTokens |-> SumOf(rows, "totalTokens"),
     inputTokens |-> SumOf(rows, "inputTokens"),
     outputTokens |-> SumOf(rows, "outputTokens"),
     reasoningTokens |-> SumOf(rows, "reasoningTokens"),
     cachedTokens |-> SumOf(rows, "cachedTokens"),
     successCount |-> SumOf(rows, "successCount"),
     failureCount |-> SumOf(rows, "failureCount")]

\* byModelPromise
ByModelRows(rows, pageSize, offset) ==
    LET names == Present(ModelNames, rows, "model")
        all == [i \in 1..Len(names) |->
                  LET g == OfModel(rows, names[i])
                  IN [model |-> names[i],
                      requests |-> SumOf(g, "totalRequests"),
                      tokens |-> SumOf(g, "totalTokens"),
                      inputTokens |-> SumOf(g, "inputTokens"),
                      outputTokens |-> SumOf(g, "outputTokens"),
                      cachedTokens |-> SumOf(g, "cachedTokens")]]
    IN LimitOffset(all, pageSize, offset)

\* byDayPromise
ByDayRows(rows, days) ==
    LET labels == Ascending({dayExpr(rows[i].occurredAt) : i \in 1..Len(rows)})
        all == [i \in 1..Len(labels) |->
                  LET g == OfDay(rows, labels[i])
                  IN [label |-> labels[i],
                      requests |-> SumOf(g, "totalRequests"),
                      tokens |-> SumOf(g, "totalTokens")]]
    IN LimitOffset(all, days, 0)

\* byDayModelPromise
ByDayModelRows(rows) ==
    LET labels == Ascending({dayExpr(rows[i].occurredAt) : i \in 1..Len(rows)})
        OfLabel(d) ==
            LET onDay == OfDay(rows, d)
                names == Present(ModelNames, onDay, "model")
            IN [i \in 1..Len(names) |->
                  LET g == OfModel(onDay, names[i])
                  IN [label |-> d, model |-> names[i],
                      inputTokens |-> SumOf(g, "inputTokens"),
                      outputTokens |-> SumOf(g, "outputTokens"),
                      cachedTokens |-> SumOf(g, "cachedTokens")]]
        RECURSIVE Concat(_)
        Concat(k) == IF k = 0 THEN <<>> ELSE Concat(k - 1) \o OfLabel(labels[k])
    IN Concat(Len(labels))

\* byHourPromise
ByHourRows(rows) ==
    LET labels == Ascending({hourExpr(rows[i].occurredAt) : i \in 1..Len(rows)})
    IN [i \in 1..Len(labels) |->
          LET g == OfHour(rows, labels[i])
          IN [label |-> labels[i],
              requests |-> SumOf(g, "totalRequests"),
              tokens |-> SumOf(g, "totalTokens"),
              inputTokens |-> SumOf(g, "inputTokens"),
              outputTokens |-> SumOf(g, "outputTokens"),
              reasoningTokens |-> SumOf(g, "reasoningTokens"),
              cachedTokens |-> SumOf(g, "cachedTokens")]]

\* byRoutePromise, before ORDER BY sum(total_requests) DESC LIMIT 10
ByRouteGroups(rows) ==
    {LET g == OfRoute(rows, x)
     IN [route |-> x,
         requests |-> SumOf(g, "totalRequests"),
         tokens |-> SumOf(g, "totalTokens"),
         inputTokens |-> SumOf(g, "inputTokens"),
         outputTokens |-> SumOf(g, "outputTokens"),
         cachedTokens |-> SumOf(g, "cachedTokens")] :
       x \in {rows[i].route : i \in 1..Len(rows)}}

\* ORDER BY sum(total_requests) DESC: the orders it allows; routes of equal
\* requests may come either way.
RECURSIVE RouteOrders(_)
RouteOrders(S) ==
    IF S = {} THEN {<<>>}
    ELSE LET first == {r \in S : \A o \in S : r.requests >= o.requests}
         IN UNION {{<<r>> \o t : t \in RouteOrders(S \ {r})} : r \in first}

\* A row of model_prices; the rates in tenths of a dollar per million tokens.
Price(m, input, cached, output) ==
    [model |-> m, inputPricePer1M |-> input, cachedInputPricePer1M |-> cached,
     outputPricePer1M |-> output]

\* The rates of a model without a price row.
DefaultPrice == Price("", 30, 3, 150)

\* priceMap and the lookup of estimateCost: the row of the model, else the default.
PriceOf(m, priceRows) ==
    IF \E i \in 1..Len(priceRows) : priceRows[i].model = m
    THEN priceRows[CHOOSE i \in 1..Len(priceRows) : priceRows[i].model = m]
    ELSE DefaultPrice

\* estimateCost({ inputTokens, cachedTokens, outputTokens }, model, prices)
estimateCost(t, m, priceRows) ==
    LET p == PriceOf(m, priceRows)
    IN (t.inputTokens - t.cachedTokens) * p.inputPricePer1M
          + t.cachedTokens * p.cachedInputPricePer1M
          + t.outputTokens * p.outputPricePer1M

\* x / n rounded to the nearest integer, n > 0
DivRound(x, n) ==
    IF x >= 0 THEN (2 * x + n) \div (2 * n) ELSE 0 - ((2 * (0 - x) + n) \div (2 * n))

\* The sum of a rate over the price rows, or the fallback when there are none;
\* the average is this sum over AvgCount.
AvgSum(priceRows, f, fallback) ==
    IF Len(priceRows) > 0 THEN SumOf(priceRows, f) ELSE fallback

AvgCount(priceRows) == IF Len(priceRows) > 0 THEN Len(priceRows) ELSE 1

\* The cost of a top route at the average of the configured prices.
RouteCost(row, priceRows) ==
    ToFixed(DivRound((row.inputTokens - row.cachedTokens)
                         * AvgSum(priceRows, "inputPricePer1M", 30)
                       + row.cachedTokens * AvgSum(priceRows, "cachedInputPricePer1M", 3)
                       + row.outputTokens * AvgSum(priceRows, "outputPricePer1M", 150),
                     AvgCount(priceRows)),
            CENT_100TH)

\* A mutant of the daily cost: the tokens of a day are summed over its models
\* and priced afterwards, at the rates of the first model of the day.
DailyCostPricedAfterSum(label, byDayModelRows, priceRows) ==
    LET OnDay(r) == r.label = label
        g == SelectSeq(byDayModelRows, OnDay)
    IN IF g = <<>> THEN 0
       ELSE estimateCost([inputTokens |-> SumOf(g, "inputTokens"),
                          cachedTokens |-> SumOf(g, "cachedTokens"),
                          outputTokens |-> SumOf(g, "outputTokens")],
                         g[1].model, priceRows)

\* dailyCostMap.get(label) ?? 0
DailyCost(label, byDayModelRows, priceRows) ==
    LET OnDay(r) == r.label = label
        g == SelectSeq(byDayModelRows, OnDay)
    IN SumSeq([i \in 1..Len(g) |-> estimateCost(g[i], g[i].model, priceRows)])

\* byDay: one entry per row of the daily query.
ByDay(byDayRows, byDayModelRows, priceRows, w) ==
    [i \in 1..Len(byDayRows) |->
        [label |-> byDayRows[i].label,
         requests |-> byDayRows[i].requests,
         tokens |-> byDayRows[i].tokens,
         cost |-> ToFixed(DailyCost(byDayRows[i].label, byDayModelRows, priceRows), CENT)]]

\* A mutant of the model rows: every model at the default rates.
ModelsAtDefault(byModelRows, priceRows) ==
    [i \in 1..Len(byModelRows) |->
        [model |-> byModelRows[i].model,
         requests |-> byModelRows[i].requests,
         tokens |-> byModelRows[i].tokens,
         inputTokens |-> byModelRows[i].inputTokens,
         outputTokens |-> byModelRows[i].outputTokens,
         cost |-> estimateCost(byModelRows[i], byModelRows[i].model, <<>>)]]

\* models: the rows of the page, each with its cost.
Models(byModelRows, priceRows) ==
    [i \in 1..Len(byModelRows) |->
        [model |-> byModelRows[i].model,
         requests |-> byModelRows[i].requests,
         tokens |-> byModelRows[i].tokens,
         inputTokens |-> byModelRows[i].inputTokens,
         outputTokens |-> byModelRows[i].outputTokens,
         cost |-> estimateCost(byModelRows[i], byModelRows[i].model, priceRows)]]

\* models.reduce((acc, cur) => acc + cur.cost, 0)
TotalCost(models, filtered, priceRows) == SumOf(models, "cost")

\* A mutant of the empty flag: true when the page has no model rows.
EmptyNoModels(totalRequests, models) == models = <<>>

\* empty: totalRequests === 0
Empty(totalRequests, models) == totalRequests = 0

\* A mutant of the filter lists: taken from the filtered rows.
AvailableOfFiltered(names, inWindow, filtered, f) == Present(names, filtered, f)

\* availableModelsPromise, availableRoutesPromise: over baseWhere
Available(names, inWindow, filtered, f) == Present(names, inWindow, f)

\* ?page= and ?pageSize= after Number.parseInt
normalizePage(v) ==
    IF v.kind # "num" THEN 1 ELSE Max(1, v.v)

normalizePageSize(v) ==
    IF v.kind # "num" THEN 10 ELSE Min(Max(v.v, 5), 500)

\* Math.ceil(a / b), a >= 0, b > 0
CeilDiv(a, b) == (a + b - 1) \div b

\* The value getOverview returns, for the order the route query gave its rows.
OverviewOf(rows, priceRows, w, req, routeOrder) ==
    LET page == normalizePage(req.page)
        pageSize == normalizePageSize(req.pageSize)
        offset == (page - 1) * pageSize
        inWindow == WhereBase(rows, w)
        filtered == Where(rows, w, req.model, req.route)
        totalsRow == TotalsOf(filtered)
        byDayModelRows == ByDayModelRows(filtered)
        models == Models(ByModelRows(filtered, pageSize, offset), priceRows)
        totalModels == Len(Present(ModelNames, filtered, "model"))
    IN [overview |->
           [totalRequests |-> totalsRow.totalRequests,
            totalTokens |-> totalsRow.totalTokens,
            totalInputTokens |-> totalsRow.inputTokens,
            totalOutputTokens |-> totalsRow.outputTokens,
            totalReasoningTokens |-> totalsRow.reasoningTokens,
            totalCachedTokens |-> totalsRow.cachedTokens,
            successCount |-> totalsRow.successCount,
            failureCount |-> totalsRow.failureCount,
            successRate |-> IF totalsRow.totalRequests = 0 THEN <<1, 1>>
                            ELSE <<totalsRow.successCount, totalsRow.totalRequests>>,
            totalCost |-> ToFixed(TotalCost(models, filtered, priceRows), CENT_100TH),
            models |-> models,
            byDay |-> ByDay(ByDayRows(filtered, w.days), byDayModelRows, priceRows, w),
            byHour |-> ByHourRows(filtered)],
        empty |-> Empty(totalsRow.totalRequests, models),
        days |-> w.days,
        meta |-> [page |-> page, pageSize |-> pageSize, totalModels |-> totalModels,
                  totalPages |-> Max(1, CeilDiv(totalModels, pageSize))],
        filters |-> [models |-> Available(ModelNames, inWindow, filtered, "model"),
                     routes |-> Available(RouteNames, inWindow, filtered, "route")],
        topRoutes |-> [i \in 1..Len(routeOrder) |->
                          [route |-> routeOrder[i].route,
                           requests |-> routeOrder[i].requests,
                           tokens |-> routeOrder[i].tokens,
                           inputTokens |-> routeOrder[i].inputTokens,
                           outputTokens |-> routeOrder[i].outputTokens,
                           cachedTokens |-> routeOrder[i].cachedTokens,
                           cost |-> RouteCost(routeOrder[i], priceRows)]]]

\* The queries getOverview awaits together.
SubQueries == {"totals", "price", "totalModels", "byModel", "byDay", "byDayModel",
               "byHour", "availableModels", "availableRoutes", "byRoute"}

ErrorBody == [error |-> "Internal Server Error"]

\* A mutant of the route: a failed query is left out and the rest is returned.
RespondSettled(req, failed, payload) ==
    [req |-> req, failed |-> failed, status |-> 200, body |-> payload]

\* await Promise.all([...]) inside try / catch: the payload, or a 500.
Respond(req, failed, payload) ==
    IF failed = "none"
    THEN [req |-> req, failed |-> failed, status |-> 200, body |-> payload]
    ELSE [req |-> req, failed |-> failed, status |-> 500, body |-> ErrorBody]

Undefined == [kind |-> "undefined", v |-> 0]

\* GET /api/overview: the query parameters, and the sub-query that fails, if any.
GetOverview(req, failed) ==
    /\ win # None
    /\ LET w == ResolveWindow(win.tz, now, req.days, req.start, req.end)
           filtered == Where(usage_records, w, req.model, req.route)
       IN /\ win' = w
          /\ \E routeOrder \in RouteOrders(ByRouteGroups(filtered)) :
                overview' = Respond(req, failed,
                                    OverviewOf(usage_records, model_prices, w, req,
                                               routeOrder))
    /\ UNCHANGED <<ingestVars, cacheVars, explore, model_prices, clientVars>>

\* GET /api/overview?days=&start=&end=
OverviewRequest(daysInput, start, end) ==
    GetOverview([route |-> "", model |-> "", days |-> daysInput, start |-> start,
                 end |-> end, pageSize |-> Undefined, page |-> Undefined], "none")

InitWindow ==
    /\ InitIngest
    /\ cache = <<>>
    /\ now \in WinNows
    /\ query = [q \in Queries |-> IdleQuery]
    /\ lastClear = NoClear
    /\ lastResp = NoResp
    /\ explore = None
    /\ overview = None
    /\ model_prices = <<>>
    /\ InitClient
    /\ win \in {NoWindow(tz) : tz \in HostZones}

NextWindow ==
    \E d \in DaysInputs, s \in DateInputs, e \in DateInputs : OverviewRequest(d, s, e)

SpecWindow == InitWindow /\ [][NextWindow]_vars

\* The request ?days=14, and the request for the 14 calendar days that end today.
IsPreset14(r) ==
    /\ r.days = [kind |-> "num", v |-> 14]
    /\ r.start.kind = "absent"
    /\ r.end.kind = "absent"

IsRange14(r) ==
    /\ r.start = [kind |-> "date", day |-> WinToday - 13]
    /\ r.end = [kind |-> "date", day |-> WinToday]

(***************************************************************************)
(* C7. A request with days=14 and a request with an explicit start/end     *)
(* covering the same 14 days, made at the same instant, resolve to the     *)
(* same since and until bounds and the same days value.                    *)
(***************************************************************************)
C7_SameWindow ==
    [][(win # None /\ win.resolved /\ IsPreset14(win.req) /\ IsRange14(win'.req))
          => /\ win'.since = win.since
             /\ win'.hasUntil = win.hasUntil
             /\ win'.until = win.until
             /\ win'.days = win.days]_vars

\* The request names two parseable dates, the end not before the start.
AsksRange(r) ==
    /\ r.start.kind = "date"
    /\ r.end.kind = "date"
    /\ r.end.day >= r.start.day

(***************************************************************************)
(* C16. When start and end are given and end >= start, the explicit range  *)
(* wins over the days parameter, and the reported days equals              *)
(* ceil((dayEnd(end) - dayStart(start)) / 1 day) + 1.                      *)
(***************************************************************************)
C16_CeilSpan ==
    (win # None /\ win.resolved /\ AsksRange(win.req)) =>
        /\ win.hasCustomRange
        /\ win.since = withDayStart(win.req.start.day * DAY, win.tz)
        /\ win.until = withDayEnd(win.req.end.day * DAY, win.tz)
        /\ win.days = CeilDiv(win.until - win.since, DAY) + 1

(***************************************************************************)
(* C18. A range with end < start, or with an unparseable or missing start  *)
(* or end, is no custom range: the window is the relative window of the    *)
(* clamped days parameter (default 14), it has no upper bound, and the     *)
(* response is no error.                                                   *)
(***************************************************************************)
C18_FallbackToDays ==
    (win # None /\ win.resolved /\ ~AsksRange(win.req)) =>
        /\ ~win.hasCustomRange
        /\ ~win.hasUntil
        /\ win.days = (IF win.req.days.kind = "num"
                       THEN (IF win.req.days.v < 1 THEN 1
                             ELSE IF win.req.days.v > 90 THEN 90 ELSE win.req.days.v)
                       ELSE 14)
        /\ win.since = (now \div 1000) - win.days * DAY
        /\ overview.status = 200
        /\ overview.body.days = win.days

\* A range with the end before the start was asked for beside days = 1.
C18_Witness ==
    /\ win # None
    /\ win.resolved
    /\ win.req.start.kind = "date"
    /\ win.req.end.kind = "date"
    /\ win.req.end.day < win.req.start.day
    /\ win.req.days = [kind |-> "num", v |-> 1]
    /\ win.days = 1
    /\ overview.status = 200

(***************************************************************************)
(* Overview requests over a populated Event Store.                         *)
(***************************************************************************)

\* A row of usage_records with its counters.
Usage(t, route, model, requests, input, cached, output, ok) ==
    [occurredAt |-> t, route |-> route, model |-> model, totalRequests |-> requests,
     totalTokens |-> input + output, inputTokens |-> input, outputTokens |-> output,
     reasoningTokens |-> 0, cachedTokens |-> cached,
     successCount |-> ok, failureCount |-> requests - ok]

\* The rows a store of the model may hold, in insertion order: two models on the
\* same day, a row with more cached than input tokens, a batch row two days
\* earlier, a row before the 14-day window, and a row of the day before.
OvCandidates ==
    LET today == WinToday * DAY
    IN << Usage(today + 2 * HOUR, "r1", "m1", 1, 123456, 0, 1000000, 1),
          Usage(today + 3 * HOUR, "r2", "m2", 1, 400000, 100000, 50000, 0),
          Usage(today + HOUR, "r1", "m2", 1, 0, 1000000, 0, 1),
          Usage(today - 2 * DAY + 5 * HOUR, "r1", "m1", 2, 10000, 0, 20000, 2),
          Usage(12 * HOUR, "r2", "m2", 1, 5000, 0, 5000, 1),
          Usage(today - DAY + 5 * HOUR, "r2", "m1", 1, 700, 0, 300, 1) >>

MaxOvRows == 5    \* candidates a store of the model draws from

\* The stores: the subsequences of the first n candidates.
RECURSIVE OvStores(_)
OvStores(n) ==
    IF n = 0 THEN {<<>>}
    ELSE LET shorter == OvStores(n - 1)
         IN shorter \cup {Append(st, OvCandidates[n]) : st \in shorter}

\* The price tables: none, and gpt-4o like rates for m1 only.
OvPriceTables == {<<>>, <<Price("m1", 25, 0, 100)>>}

Num(n) == [kind |-> "num", v |-> n]
AbsentDate == [kind |-> "absent", day |-> 0]

\* The windows asked for: the default, two days, and today as an explicit range.
OvWindows ==
    {[days |-> Undefined, start |-> AbsentDate, end |-> AbsentDate],
     [days |-> Num(2), start |-> AbsentDate, end |-> AbsentDate],
     [days |-> Undefined, start |-> [kind |-> "date", day |-> WinToday],
      end |-> [kind |-> "date", day |-> WinToday]]}

OvRequests ==
    {[route |-> r, model |-> m, days |-> w.days, start |-> w.start, end |-> w.end,
      pageSize |-> Undefined, page |-> pg] :
        w \in OvWindows, m \in {"", "m1", "m2"}, r \in {"", "r1"},
        pg \in {Undefined, Num(2)}}

InitOverview ==
    /\ usage_records \in OvStores(MaxOvRows)
    /\ sync = [s \in Syncs |-> IdleSync]
    /\ reported = [s \in Syncs |-> 0]
    /\ lastRun = None
    /\ cache = <<>>
    /\ now = WinToday * DAY_MS + 9 * (DAY_MS \div 24)
    /\ query = [q \in Queries |-> IdleQuery]
    /\ lastClear = NoClear
    /\ lastResp = NoResp
    /\ explore = None
    /\ win = NoWindow(FixedZone(0))
    /\ overview = None
    /\ model_prices \in OvPriceTables
    /\ InitClient

NextOverview ==
    \E req \in OvRequests : GetOverview(req, "none")

SpecOverview == InitOverview /\ [][NextOverview]_vars

\* ?page= and ?pageSize= after Number.parseInt
MaxPageInput == 3
PageInputs ==
    {Undefined, [kind |-> "NaN", v |-> 0]} \cup {Num(n) : n \in {-1, 0, MaxPageInput}}
PageSizeInputs ==
    {Undefined, [kind |-> "NaN", v |-> 0]} \cup {Num(n) : n \in {-1, 4, 5, 500, 501}}
ClampDaysInputs ==
    {Undefined, [kind |-> "NaN", v |-> 0]} \cup {Num(n) : n \in {-1, 0, 1, 90, 91}}

\* Requests with any days, page and pageSize, over a small store.
InitClamp ==
    /\ usage_records \in OvStores(1)
    /\ sync = [s \in Syncs |-> IdleSync]
    /\ reported = [s \in Syncs |-> 0]
    /\ lastRun = None
    /\ cache = <<>>
    /\ now = WinToday * DAY_MS + 9 * (DAY_MS \div 24)
    /\ query = [q \in Queries |-> IdleQuery]
    /\ lastClear = NoClear
    /\ lastResp = NoResp
    /\ explore = None
    /\ win = NoWindow(FixedZone(0))
    /\ overview = None
    /\ model_prices = <<>>
    /\ InitClient

NextClamp ==
    \E d \in ClampDaysInputs, pg \in PageInputs, ps \in PageSizeInputs :
        GetOverview([route |-> "", model |-> "", days |-> d, start |-> AbsentDate,
                     end |-> AbsentDate, pageSize |-> ps, page |-> pg], "none")

SpecClamp == InitClamp /\ [][NextClamp]_vars

(***************************************************************************)
(* Explore sampler.                                                        *)
(***************************************************************************)

\* The clamp of maxPoints (1,000 to 100,000, default 20,000), scaled down.
EXPLORE_MIN_POINTS == 1
EXPLORE_MAX_POINTS == 3
EXPLORE_DEFAULT_POINTS == 2

MaxExploreAt == 3     \* timestamps of the rows of the explored store
MaxSince == 2         \* lower bounds of the explored window
MaxPointsInput == 4   \* values of ?maxPoints=

ExploreTimes == 1..MaxExploreAt

\* The rows that may be stored at one timestamp: of model m1 a single request or
\* a pre-aggregated batch of two, of model m2 a single request.
RowsAt(t) ==
    LET Row(m, n) == [occurredAt |-> t, route |-> "r1", model |-> m,
                      totalRequests |-> n, syncedBy |-> "cron"]
    IN {<<>>, <<Row("m1", 1)>>, <<Row("m1", 2)>>, <<Row("m2", 1)>>,
        <<Row("m1", 1), Row("m2", 1)>>, <<Row("m2", 1), Row("m1", 1)>>,
        <<Row("m1", 2), Row("m2", 1)>>}

\* The contents of the Event Store up to timestamp t, in insertion order.
RECURSIVE StoresUpTo(_)
StoresUpTo(t) ==
    IF t = 0 THEN {<<>>}
    ELSE {s \o r : s \in StoresUpTo(t - 1), r \in RowsAt(t)}

\* ?maxPoints= after Number.parseInt: absent or an integer.
MaxPointsInputs ==
    {[kind |-> "undefined", v |-> 0]} \cup {[kind |-> "num", v |-> n] : n \in 0..MaxPointsInput}

normalizeMaxPoints(m) ==
    IF m.kind # "num" THEN EXPLORE_DEFAULT_POINTS
    ELSE Min(Max(m.v, EXPLORE_MIN_POINTS), EXPLORE_MAX_POINTS)

\* WHERE total_requests = 1 AND occurred_at >= since
Matching(rows, since) ==
    {rows[i] : i \in {j \in 1..Len(rows) :
                         rows[j].totalRequests = 1 /\ rows[j].occurredAt >= since}}

\* row_number() OVER (ORDER BY occurred_at): the numberings the ordering allows;
\* rows of equal occurred_at may be numbered either way.
RECURSIVE Rankings(_)
Rankings(S) ==
    IF S = {} THEN {<<>>}
    ELSE LET first == {r \in S : \A o \in S : r.occurredAt <= o.occurredAt}
         IN UNION {{<<r>> \o t : t \in Rankings(S \ {r})} : r \in first}

\* step = max(1, floor(N / maxPoints))
StepOf(n, maxPoints) == Max(1, n \div maxPoints)

ToPoint(r) == [ts |-> r.occurredAt, model |-> r.model]

\* A mutant of the sampling: no LIMIT.
SampleNoLimit(ranking, step, maxPoints) ==
    [j \in 1..(Len(ranking) \div step) |-> ToPoint(ranking[j * step])]

\* WHERE rn % step = 0 LIMIT maxPoints
Sample(ranking, step, maxPoints) ==
    [j \in 1..Min(Len(ranking) \div step, maxPoints) |-> ToPoint(ranking[j * step])]

NoExplore == [asked |-> FALSE, answered |-> FALSE, status |-> 0, since |-> 0,
              maxPoints |-> 0, step |-> 0, points |-> <<>>]

\* GET /api/explore: the window and maxPoints of the request.
ExploreRequest(since, m) ==
    /\ explore # None
    /\ ~explore.asked
    /\ explore' = [NoExplore EXCEPT !.asked = TRUE, !.since = since,
                                    !.maxPoints = normalizeMaxPoints(m)]
    /\ UNCHANGED <<ingestVars, cacheVars, win, overview, model_prices, clientVars>>

\* computeExplorePoints over the Event Store: the response { step, points }.
ExploreCompute ==
    /\ explore # None
    /\ explore.asked
    /\ LET rows == Matching(usage_records, explore.since)
           step == StepOf(Cardinality(rows), explore.maxPoints)
       IN \E ranking \in Rankings(rows) :
             explore' = [explore EXCEPT !.answered = TRUE, !.status = 200, !.step = step,
                                        !.points = Sample(ranking, step, explore.maxPoints)]
    /\ UNCHANGED <<ingestVars, cacheVars, win, overview, model_prices, clientVars>>

\* getExplorePoints throws: the route answers 500 with an error field only.
ExploreFail ==
    /\ explore # None
    /\ explore.asked
    /\ explore' = [explore EXCEPT !.answered = FALSE, !.status = 500, !.step = 0,
                                  !.points = <<>>]
    /\ UNCHANGED <<ingestVars, cacheVars, win, overview, model_prices, clientVars>>

InitExplore ==
    /\ usage_records \in StoresUpTo(MaxExploreAt)
    /\ sync = [s \in Syncs |-> IdleSync]
    /\ reported = [s \in Syncs |-> 0]
    /\ lastRun = None
    /\ InitCache
    /\ explore = NoExplore
    /\ win = None
    /\ overview = None
    /\ model_prices = <<>>
    /\ InitClient

NextExplore ==
    \/ \E since \in 1..MaxSince, m \in MaxPointsInputs : ExploreRequest(since, m)
    \/ ExploreCompute

SpecExplore == InitExplore /\ [][NextExplore]_vars

\* The rows the request matches.
ExploreN == Cardinality(Matching(usage_records, explore.since))

\* The rows of the Event Store the resolved window and the filters select.
Selected ==
    {i \in 1..Len(usage_records) :
        /\ usage_records[i].occurredAt >= win.since
        /\ win.hasUntil => usage_records[i].occurredAt <= win.until
        /\ overview.req.model # "" => usage_records[i].model = overview.req.model
        /\ overview.req.route # "" => usage_records[i].route = overview.req.route}

Answered == overview # None /\ overview.status = 200

(***************************************************************************)
(* C11. Gap-filling completeness: for a resolved window of D days byDay    *)
(* has exactly D entries, of strictly increasing, contiguous calendar      *)
(* dates, also over an empty store.                                        *)
(***************************************************************************)
C11_GapFilled ==
    Answered =>
        LET byDay == overview.body.overview.byDay
        IN /\ Len(byDay) = overview.body.days
           /\ \A i \in 1..(Len(byDay) - 1) : byDay[i + 1].label = byDay[i].label + 1

\* The requests ask for the same window with the same filters.
SameQuery(r1, r2) ==
    /\ r1.days = r2.days
    /\ r1.start = r2.start
    /\ r1.end = r2.end
    /\ r1.model = r2.model
    /\ r1.route = r2.route

TotalsIn(o) ==
    <<o.totalRequests, o.totalTokens, o.totalInputTokens, o.totalOutputTokens,
      o.totalReasoningTokens, o.totalCachedTokens, o.successCount, o.failureCount,
      o.successRate, o.totalCost>>

(***************************************************************************)
(* C12. For a fixed store, price table, window and filters the totals of   *)
(* the overview (requests, tokens, success and failure counts, success     *)
(* rate, total cost) are the same for every page and pageSize, and a page  *)
(* beyond totalPages has no model rows.                                    *)
(***************************************************************************)
C12_TotalsIgnorePage ==
    [][(Answered /\ overview' # None /\ overview'.status = 200
          /\ SameQuery(overview.req, overview'.req))
         => /\ TotalsIn(overview'.body.overview) = TotalsIn(overview.body.overview)
            /\ overview'.body.meta.page > overview'.body.meta.totalPages
                  => overview'.body.overview.models = <<>>]_vars

(***************************************************************************)
(* C13. empty is true exactly when totalRequests is 0 for the resolved     *)
(* window and filters: a page without model rows does not make it true     *)
(* while the totals are not zero, and a window without events gives a      *)
(* response with empty true and zero totals, not an error.                 *)
(***************************************************************************)
C13_EmptyIffNoRequests ==
    overview # None =>
        LET o == overview.body.overview
            requests == SumSeq([i \in 1..Len(usage_records) |->
                                   IF i \in Selected THEN usage_records[i].totalRequests
                                   ELSE 0])
        IN /\ overview.status = 200
           /\ o.totalRequests = requests
           /\ overview.body.empty <=> (requests = 0)
           /\ Selected = {} =>
                 /\ overview.body.empty
                 /\ TotalsIn(o) = <<0, 0, 0, 0, 0, 0, 0, 0, <<1, 1>>, 0>>
                 /\ o.models = <<>>

\* A page beyond the last holds no model rows while the totals are not zero.
C13_Witness ==
    /\ Answered
    /\ overview.body.overview.models = <<>>
    /\ overview.body.meta.page > overview.body.meta.totalPages
    /\ overview.body.overview.totalRequests > 0
    /\ ~overview.body.empty

(***************************************************************************)
(* C14. Daily cost additivity: the cost of every day of byDay is the sum   *)
(* over the models of the day of estimateCost of that model's token sums   *)
(* of the day, to within half a cent (the cost is rounded to cents).       *)
(***************************************************************************)
C14_DailyCostAdditive ==
    Answered =>
        LET byDay == overview.body.overview.byDay
            Tokens(d, m, f) ==
                SumSeq([i \in 1..Len(usage_records) |->
                           IF /\ i \in Selected
                              /\ usage_records[i].model = m
                              /\ dayExpr(usage_records[i].occurredAt) = d
                           THEN usage_records[i][f] ELSE 0])
            CostOf(d, m) ==
                estimateCost([inputTokens |-> Tokens(d, m, "inputTokens"),
                              cachedTokens |-> Tokens(d, m, "cachedTokens"),
                              outputTokens |-> Tokens(d, m, "outputTokens")],
                             m, model_prices)
            Expected(d) == SumSeq([k \in 1..Len(ModelNames) |-> CostOf(d, ModelNames[k])])
        IN \A i \in 1..Len(byDay) :
              /\ 2 * (byDay[i].cost - Expected(byDay[i].label)) <= CENT
              /\ 2 * (Expected(byDay[i].label) - byDay[i].cost) <= CENT
              /\ byDay[i].cost % CENT = 0

\* A day with rows of two models at different rates, its cost not a whole cent
\* before rounding.
C14_Witness ==
    /\ Answered
    /\ model_prices # <<>>
    /\ \E i \in 1..Len(overview.body.overview.byDay) :
          LET d == overview.body.overview.byDay[i].label
              onDay == {j \in Selected : dayExpr(usage_records[j].occurredAt) = d}
          IN /\ \E j, k \in onDay : usage_records[j].model # usage_records[k].model
             /\ overview.body.overview.byDay[i].cost > 0
             /\ SumSeq([k \in 1..Len(ModelNames) |->
                          estimateCost(
                             [inputTokens |-> SumSeq([j \in 1..Len(usage_records) |->
                                  IF j \in onDay /\ usage_records[j].model = ModelNames[k]
                                  THEN usage_records[j].inputTokens ELSE 0]),
                              cachedTokens |-> 0, outputTokens |-> 0],
                             ModelNames[k], model_prices)]) % CENT # 0

(***************************************************************************)
(* C15. For non-negative token counts and rates the estimated cost is not  *)
(* negative, for the per-model costs and for the top-route costs.          *)
(***************************************************************************)
C15_CostNotNegative ==
    Answered =>
        /\ \A i \in 1..Len(overview.body.topRoutes) : overview.body.topRoutes[i].cost >= 0
        /\ \A i \in 1..Len(overview.body.overview.models) :
              overview.body.overview.models[i].cost >= 0

(***************************************************************************)
(* C19. filters.models and filters.routes depend on the time window only:  *)
(* two requests over the same store and window return the same lists,      *)
(* whatever their model and route filters, page and pageSize; the lists    *)
(* are the models and routes of the rows of the window.                    *)
(***************************************************************************)
C19_FiltersOfWindowOnly ==
    [][(overview' # None /\ overview'.status = 200) =>
          /\ (Answered /\ overview.req.days = overview'.req.days
                /\ overview.req.start = overview'.req.start
                /\ overview.req.end = overview'.req.end)
               => overview'.body.filters = overview.body.filters
          /\ \A i \in 1..Len(usage_records) :
                (/\ usage_records[i].occurredAt >= win'.since
                 /\ win'.hasUntil => usage_records[i].occurredAt <= win'.until)
                  => /\ \E k \in 1..Len(overview'.body.filters.models) :
                           overview'.body.filters.models[k] = usage_records[i].model
                     /\ \E k \in 1..Len(overview'.body.filters.routes) :
                           overview'.body.filters.routes[k] = usage_records[i].route]_vars

\* A request filtered to model m2 and route r1 lists model m1 and route r2 too.
C19_Witness ==
    /\ Answered
    /\ overview.req.model = "m2"
    /\ overview.req.route = "r1"
    /\ \E k \in 1..Len(overview.body.filters.models) : overview.body.filters.models[k] = "m1"
    /\ \E k \in 1..Len(overview.body.filters.routes) : overview.body.filters.routes[k] = "r2"

(***************************************************************************)
(* C17. No days, page or pageSize is rejected: the response is no error,   *)
(* 1 <= days <= 90 (14 when missing), page >= 1 (1 when missing),          *)
(* 5 <= pageSize <= 500, a value inside its range is kept, and the query   *)
(* runs with the resolved values.                                          *)
(***************************************************************************)
C17_ClampedNeverRejected ==
    overview # None =>
        LET r == overview.req
            m == overview.body.meta
            InRange(x, lo, hi) == x.kind = "num" /\ x.v >= lo /\ x.v <= hi
        IN /\ overview.status = 200
           /\ overview.body.days >= 1
           /\ overview.body.days <= 90
           /\ r.days.kind # "num" => overview.body.days = 14
           /\ InRange(r.days, 1, 90) => overview.body.days = r.days.v
           /\ m.page >= 1
           /\ r.page.kind # "num" => m.page = 1
           /\ (r.page.kind = "num" /\ r.page.v >= 1) => m.page = r.page.v
           /\ m.pageSize >= 5
           /\ m.pageSize <= 500
           /\ InRange(r.pageSize, 5, 500) => m.pageSize = r.pageSize.v
           /\ win.since = (now \div 1000) - overview.body.days * DAY
           /\ Len(overview.body.overview.models) <= m.pageSize

\* days, page and pageSize were all outside their ranges.
C17_Witness ==
    /\ overview # None
    /\ overview.req.days = Num(91)
    /\ overview.req.page = Num(-1)
    /\ overview.req.pageSize = Num(501)
    /\ overview.body.days = 90
    /\ overview.body.meta.page = 1
    /\ overview.body.meta.pageSize = 500

\* Overview and explore requests whose queries may fail.
FailRequests ==
    {[route |-> "", model |-> m, days |-> d, start |-> AbsentDate, end |-> AbsentDate,
      pageSize |-> Undefined, page |-> Undefined] : d \in {Undefined, Num(2)}, m \in {"", "m1"}}

InitFail ==
    /\ usage_records \in OvStores(2)
    /\ sync = [s \in Syncs |-> IdleSync]
    /\ reported = [s \in Syncs |-> 0]
    /\ lastRun = None
    /\ cache = <<>>
    /\ now = WinToday * DAY_MS + 9 * (DAY_MS \div 24)
    /\ query = [q \in Queries |-> IdleQuery]
    /\ lastClear = NoClear
    /\ lastResp = NoResp
    /\ explore = NoExplore
    /\ win = NoWindow(FixedZone(0))
    /\ overview = None
    /\ model_prices = <<>>
    /\ InitClient

NextFail ==
    \/ \E req \in FailRequests, failed \in {"none"} \cup SubQueries : GetOverview(req, failed)
    \/ \E m \in MaxPointsInputs : ExploreRequest(1, m)
    \/ ExploreCompute
    \/ ExploreFail

SpecFail == InitFail /\ [][NextFail]_vars

(***************************************************************************)
(* C20. If a sub-query of an overview request, or the query of an explore  *)
(* request, fails, the caller receives one error response, status 500      *)
(* with an error field only, and no part of the result; without a failure  *)
(* it receives the whole result.                                           *)
(***************************************************************************)
C20_ErrorOrWhole ==
    /\ overview # None =>
          IF overview.failed # "none"
          THEN /\ overview.status = 500
               /\ DOMAIN overview.body = {"error"}
          ELSE /\ overview.status = 200
               /\ DOMAIN overview.body =
                     {"overview", "empty", "days", "meta", "filters", "topRoutes"}
    /\ explore.status = 500 => (~explore.answered /\ explore.points = <<>>)
    /\ explore.answered => explore.status = 200

\* One of the ten queries of an overview over a store with rows failed.
C20_Witness ==
    /\ overview # None
    /\ overview.failed = "byDay"
    /\ overview.status = 500
    /\ usage_records # <<>>
    /\ explore.status = 500

(***************************************************************************)
(* C8. Sampling determinism: two calls with the same window and maxPoints  *)
(* over an unchanged Event Store return the same step and the same         *)
(* sequence of points.                                                     *)
(***************************************************************************)
C8_SamplingDeterminism ==
    [][(explore.answered /\ explore'.answered)
          => /\ explore'.step = explore.step
             /\ explore'.points = explore.points]_vars

(***************************************************************************)
(* C9. With N matching rows and step = max(1, floor(N / maxPoints)), the   *)
(* returned points satisfy N - step <= step * points.length <= N.          *)
(***************************************************************************)
C9_StepTimesLength ==
    explore.answered =>
        /\ explore.step = Max(1, ExploreN \div explore.maxPoints)
        /\ ExploreN - explore.step <= explore.step * Len(explore.points)
        /\ explore.step * Len(explore.points) <= ExploreN

(***************************************************************************)
(* C10. The response never has more than maxPoints points; every point is  *)
(* a row with totalRequests = 1 in the window; the j-th point holds a rank *)
(* that is a multiple of step (rank j * step) in ascending occurredAt      *)
(* order; and the points are listed in ascending occurredAt order, no row  *)
(* twice.                                                                  *)
(***************************************************************************)
C10_SampledPoints ==
    explore.answered =>
        LET rows == Matching(usage_records, explore.since)
            pts == explore.points
            Before(t) == Cardinality({r \in rows : r.occurredAt < t})
            UpTo(t) == Cardinality({r \in rows : r.occurredAt <= t})
        IN /\ Len(pts) <= explore.maxPoints
           /\ explore.maxPoints \in EXPLORE_MIN_POINTS..EXPLORE_MAX_POINTS
           /\ \A j \in 1..Len(pts) :
                 /\ \E r \in rows : ToPoint(r) = pts[j]
                 /\ Before(pts[j].ts) < j * explore.step
                 /\ j * explore.step <= UpTo(pts[j].ts)
           /\ \A i, j \in 1..Len(pts) : i < j =>
                 /\ pts[i].ts <= pts[j].ts
                 /\ pts[i] # pts[j]

\* A store with more matching rows than maxPoints was sampled with a step above 1,
\* and rows outside the window or with totalRequests above 1 were left out.
C10_Witness ==
    /\ explore.answered
    /\ explore.step > 1
    /\ Len(explore.points) >= 1
    /\ ExploreN < Cardinality({i \in 1..Len(usage_records) :
                                  usage_records[i].totalRequests = 1})
    /\ \E i \in 1..Len(usage_records) :
          /\ usage_records[i].totalRequests > 1
          /\ usage_records[i].occurredAt >= explore.since

(***************************************************************************)
(* The login route POST /api/auth/verify and its lockout records.          *)
(***************************************************************************)
ATTEMPTS_PER_WINDOW == 10
INITIAL_LOCKOUT_MS == 1800000
ONE_HOUR_MS == 3600000

\* The clock of the login route advances in steps of the initial lockout.
MaxAuthTicks == 4
MaxAttempts == 21     \* failed attempts one record may count
MaxRecords == 2       \* record objects the route may create

\* Passwords the operator may configure (none: the route answers 500) and
\* passwords a user may type into the login form.
Passwords == {<<>>, <<"a">>, <<"a", ":", "b">>}
Typed == {<<"a">>, <<"b">>, <<"a", ":", "b">>}

\* btoa and Buffer.from(encoded, "base64").toString("utf8")
Base64(text) == [base64 |-> text]
decodeBasicToken(encoded) == encoded.base64

\* crypto.subtle.digest("SHA-256", ...) as hex
hashPassword(value) == [sha256 |-> value]

\* credentials of handleSubmit: btoa(`:${password}`)
Credentials(password) == Base64(<<":">> \o password)

\* decoded.split(":")
RECURSIVE Split(_)
Split(text) ==
    IF \A i \in 1..Len(text) : text[i] # ":" THEN <<text>>
    ELSE LET at == CHOOSE i \in 1..Len(text) :
                       text[i] = ":" /\ \A j \in 1..(i - 1) : text[j] # ":"
         IN <<SubSeq(text, 1, at - 1)>> \o Split(SubSeq(text, at + 1, Len(text)))

\* const [, providedPassword] = decoded.split(":"); providedPassword ?? ""
ProvidedPassword(encoded) ==
    LET parts == Split(decodeBasicToken(encoded))
    IN IF Len(parts) >= 2 THEN parts[2] ELSE <<>>

\* 2^k
RECURSIVE Exp2(_)
Exp2(k) == IF k <= 0 THEN 1 ELSE 2 * Exp2(k - 1)

\* A new failure record; failed and lockouts are history: the failed attempts
\* and the lockouts since the record was created.
NewRecord == [failed |-> 0, totalAttempts |-> 0,
              lockoutUntil |-> 0, lockoutDuration |-> INITIAL_LOCKOUT_MS, lockouts |-> 0]

IsLocked(refs, records, ip, t) ==
    refs[ip] # 0 /\ records[refs[ip]].lockoutUntil > t

\* A mutant of cleanupExpired: every record with a lockout is dropped.
cleanupLocked(refs, records, t) ==
    [ip \in IPs |-> IF refs[ip] # 0 /\ records[refs[ip]].lockoutUntil > 0
                    THEN 0 ELSE refs[ip]]

\* cleanupExpired(): the Map without the records whose lockout ended over an
\* hour ago.
cleanupExpired(refs, records, t) ==
    [ip \in IPs |-> IF /\ refs[ip] # 0
                       /\ records[refs[ip]].lockoutUntil > 0
                       /\ t - records[refs[ip]].lockoutUntil > ONE_HOUR_MS
                    THEN 0 ELSE refs[ip]]

\* A mutant of the failed-attempt branch: the lockout keeps its duration.
FailedAttemptFlat(record, t) ==
    LET counted == [record EXCEPT !.totalAttempts = @ + 1, !.failed = @ + 1]
    IN IF counted.totalAttempts % ATTEMPTS_PER_WINDOW = 0
       THEN [counted EXCEPT !.lockoutUntil = t + record.lockoutDuration,
                            !.lockouts = @ + 1]
       ELSE counted

\* record.totalAttempts++ and, every tenth attempt, the lockout and the
\* doubling of the next lockout's duration.
FailedAttempt(record, t) ==
    LET counted == [record EXCEPT !.totalAttempts = @ + 1, !.failed = @ + 1]
    IN IF counted.totalAttempts % ATTEMPTS_PER_WINDOW = 0
       THEN [counted EXCEPT !.lockoutUntil = t + record.lockoutDuration,
                            !.lockoutDuration = 2 * record.lockoutDuration,
                            !.lockouts = @ + 1]
       ELSE counted

NextN(n) == IF n = 1 THEN 2 ELSE 1

LoginResponse(ip, typed, header, status, cookie, isLocked, onArrival) ==
    [n |-> NextN(loginResp.n), ip |-> ip, typed |-> typed, header |-> header,
     code |-> status, cookie |-> cookie, isLocked |-> isLocked,
     onArrival |-> onArrival]

\* Requests in flight that will create a record, or count on the record ref.
Creating == {h \in Handlers : logins[h].pc = "hashing" /\ logins[h].record = 0}
CountingOn(ref) == {h \in Handlers : logins[h].pc = "hashing" /\ logins[h].record = ref}

\* POST /api/auth/verify up to the first await: cleanup, lock check, header check.
AuthArrive(h, ip, header, typed) ==
    /\ logins[h].pc = "idle"
    /\ LET refs == cleanupExpired(failedAttempts, attemptRecords, now)
           record == refs[ip]
       IN /\ failedAttempts' = refs
          /\ IF PASSWORD = <<>>
             THEN /\ loginResp' = LoginResponse(ip, typed, header, 500, None, FALSE, TRUE)
                  /\ UNCHANGED logins
             ELSE IF IsLocked(refs, attemptRecords, ip, now)
             THEN /\ loginResp' = LoginResponse(ip, typed, header, 429, None, TRUE, TRUE)
                  /\ UNCHANGED logins
             ELSE IF ~header
             THEN /\ loginResp' = LoginResponse(ip, typed, header, 401, None, FALSE, TRUE)
                  /\ UNCHANGED logins
             ELSE /\ record = 0 => Len(attemptRecords) + Cardinality(Creating) < MaxRecords
                  /\ record # 0 => attemptRecords[record].totalAttempts
                                     + Cardinality(CountingOn(record)) < MaxAttempts
                  /\ logins' = [logins EXCEPT ![h] =
                                   [pc |-> "hashing", ip |-> ip, typed |-> typed,
                                    header |-> header, record |-> record]]
                  /\ UNCHANGED loginResp
    /\ UNCHANGED <<PASSWORD, attemptRecords>>
    /\ UNCHANGED <<ingestVars, cacheVars, explore, win, overview, model_prices,
                   cron, pageVars, settingsVars>>

\* POST /api/auth/verify after the hashes: success, or a counted failure.
AuthFinish(h) ==
    /\ logins[h].pc = "hashing"
    /\ LET ip == logins[h].ip
           typed == logins[h].typed
           providedToken == hashPassword(ProvidedPassword(Credentials(typed)))
           expectedToken == hashPassword(PASSWORD)
           ref == IF logins[h].record = 0 THEN Len(attemptRecords) + 1 ELSE logins[h].record
           records == IF logins[h].record = 0 THEN Append(attemptRecords, NewRecord)
                      ELSE attemptRecords
           after == FailedAttempt(records[ref], now)
       IN IF providedToken = expectedToken
          THEN /\ failedAttempts' = [failedAttempts EXCEPT ![ip] = 0]
               /\ loginResp' = LoginResponse(ip, typed, TRUE, 200, providedToken,
                                             FALSE, FALSE)
               /\ UNCHANGED attemptRecords
          ELSE /\ attemptRecords' = [records EXCEPT ![ref] = after]
               /\ failedAttempts' = [failedAttempts EXCEPT ![ip] = ref]
               /\ loginResp' = LoginResponse(ip, typed, TRUE,
                                   IF after.totalAttempts % ATTEMPTS_PER_WINDOW = 0
                                   THEN 429 ELSE 401,
                                   None, after.totalAttempts % ATTEMPTS_PER_WINDOW = 0,
                                   FALSE)
    /\ logins' = [logins EXCEPT ![h] = IdleLogin]
    /\ UNCHANGED PASSWORD
    /\ UNCHANGED <<ingestVars, cacheVars, explore, win, overview, model_prices,
                   cron, pageVars, settingsVars>>

\* Time passes between requests; the hashes take no time at this grain.
AuthTick ==
    /\ \A h \in Handlers : logins[h].pc = "idle"
    /\ now < MaxAuthTicks * INITIAL_LOCKOUT_MS
    /\ now' = now + INITIAL_LOCKOUT_MS
    /\ UNCHANGED <<ingestVars, cache, query, lastClear, lastResp, explore, win, overview,
                   model_prices, clientVars>>

InitAuthWith(passwords) ==
    /\ InitIngest
    /\ InitCache
    /\ explore = None
    /\ win = None
    /\ overview = None
    /\ model_prices = <<>>
    /\ PASSWORD \in passwords
    /\ InitAuth
    /\ cron = IdleCron
    /\ syncingRef = FALSE
    /\ syncFetch = NoFetch
    /\ loads = <<>>
    /\ shown = NoShown
    /\ prices = <<>>
    /\ edit = IdleEdit
    /\ lastUpsert = None
    /\ pending = None

\* Two requests at a time against the password "a", up to the second lockout.
InitLogin == InitAuthWith({<<"a">>})

NextLogin ==
    \/ \E h \in Handlers, ip \in IPs, header \in BOOLEAN, typed \in {<<"a">>, <<"b">>} :
          AuthArrive(h, ip, header, typed)
    \/ \E h \in Handlers : AuthFinish(h)
    \/ AuthTick

SpecLogin == InitLogin /\ [][NextLogin]_vars

\* One request at a time, every configured password and every typed one, up
\* to the first lockout.
CredentialAttempts == 11

InitCredentials == InitAuthWith(Passwords)

NextCredentials ==
    \/ \E ip \in IPs, header \in BOOLEAN, typed \in Typed :
          /\ \A i \in 1..Len(attemptRecords) :
                attemptRecords[i].totalAttempts < CredentialAttempts
          /\ AuthArrive("h1", ip, header, typed)
    \/ AuthFinish("h1")
    \/ AuthTick

SpecCredentials == InitCredentials /\ [][NextCredentials]_vars

\* The record of ip after a step, and the number of whole windows of failed
\* attempts it has counted.
RecordAfter(ip) == attemptRecords'[failedAttempts'[ip]]

C25_LockedAlways429 ==
    [][\A ip \in IPs :
          IsLocked(failedAttempts, attemptRecords, ip, now) =>
             /\ (loginResp'.n # loginResp.n /\ loginResp'.onArrival /\ loginResp'.ip = ip) =>
                   /\ loginResp'.code = 429
                   /\ loginResp'.cookie = None
                   /\ failedAttempts'[ip] = failedAttempts[ip]
                   /\ attemptRecords' = attemptRecords
             /\ \A h \in Handlers :
                   (logins[h].pc = "idle" /\ logins'[h].pc = "hashing") => logins'[h].ip # ip
      ]_vars

\* A request with the right password was turned away by the lock.
C25_Witness ==
    /\ loginResp.onArrival
    /\ loginResp.code = 429
    /\ loginResp.header
    /\ loginResp.typed = PASSWORD
    /\ IsLocked(failedAttempts, attemptRecords, loginResp.ip, now)
    /\ attemptRecords[failedAttempts[loginResp.ip]].totalAttempts = ATTEMPTS_PER_WINDOW

\* C26: a request of an IP that is not locked, whose credentials carry the
\* configured password as the login form sends it, succeeds: status 200, the
\* cookie is the hash of the configured password, and the record of the IP is
\* deleted; for every configured password, one with a colon included.
C26_ConfiguredPasswordAccepted ==
    (loginResp.n # 0 /\ ~loginResp.onArrival /\ PASSWORD # <<>>
        /\ loginResp.typed = PASSWORD) =>
       /\ loginResp.code = 200
       /\ loginResp.cookie = hashPassword(PASSWORD)
       /\ failedAttempts[loginResp.ip] = 0

\* C23: for an explicit range, since is the first instant and until the last
\* instant of the given dates' days in the fixed time zone of the day buckets,
\* whatever the host's time zone.
C23_FixedZoneBounds ==
    (win # None /\ win.resolved /\ AsksRange(win.req)) =>
        /\ dayExpr(win.since) = win.req.start.day
        /\ dayExpr(win.since - 1) = win.req.start.day - 1
        /\ dayExpr(win.until) = win.req.end.day
        /\ dayExpr(win.until + 1) = win.req.end.day + 1

(***************************************************************************)
(* The cron job of initCronJobs: every tick of the schedule runs the       *)
(* callback, which fetches /api/sync and logs how it went.                  *)
(***************************************************************************)
MaxCronTicks == 4

\* How a fetch of /api/sync may end: a 2xx response with a JSON body, a
\* response that is not ok, or a rejected fetch or res.json().
CronOutcomes == {"completed", "failed", "error"}

clientRest == <<authVars, pageVars, settingsVars>>

\* node-cron fires the schedule: the callback logs and issues its fetch.
CronTick ==
    /\ cron.scheduled
    /\ cron.ticks < MaxCronTicks
    /\ cron' = [cron EXCEPT !.ticks = @ + 1, !.fetches = @ + 1, !.running = @ + 1,
                            !.log = Append(@, "Running sync")]
    /\ UNCHANGED <<ingestVars, cacheVars, explore, win, overview, model_prices, clientRest>>

\* A mutant of the callback without its try/catch: a rejected fetch rejects
\* the callback, and the unhandled rejection ends the process.
CronSettleUncaught(outcome) ==
    /\ cron.running > 0
    /\ cron' = IF outcome = "error"
               THEN [cron EXCEPT !.running = @ - 1, !.rejected = @ + 1,
                                 !.scheduled = FALSE]
               ELSE [cron EXCEPT !.running = @ - 1,
                                 !.log = Append(@, IF outcome = "completed"
                                                   THEN "Sync completed" ELSE "Sync failed")]
    /\ UNCHANGED <<ingestVars, cacheVars, explore, win, overview, model_prices, clientRest>>

\* The fetch of one run settles: res.ok logs the counts, a response that is
\* not ok and a thrown error are logged with console.error; nothing else.
CronSettle(outcome) ==
    /\ cron.running > 0
    /\ cron' = [cron EXCEPT !.running = @ - 1,
                            !.log = Append(@, CASE outcome = "completed" -> "Sync completed"
                                                [] outcome = "failed" -> "Sync failed"
                                                [] OTHER -> "Sync error")]
    /\ UNCHANGED <<ingestVars, cacheVars, explore, win, overview, model_prices, clientRest>>

InitCron ==
    /\ InitIngest
    /\ InitCache
    /\ explore = None
    /\ win = None
    /\ overview = None
    /\ model_prices = <<>>
    /\ InitClient

NextCron ==
    \/ CronTick
    \/ \E outcome \in CronOutcomes : CronSettle(outcome)

SpecCron == InitCron /\ [][NextCron]_vars

Count(log, entries) == Cardinality({i \in 1..Len(log) : log[i] \in entries})

\* C24: every tick of the schedule issues exactly one sync request; a failed
\* response and a thrown error are logged, do not reject the callback, leave
\* the schedule running, and cause no second request before the next tick.
C24_OneRequestPerTick ==
    /\ cron.fetches = cron.ticks
    /\ cron.rejected = 0
    /\ cron.scheduled
    /\ Count(cron.log, {"Running sync"}) = cron.ticks
    /\ Count(cron.log, {"Sync completed", "Sync failed", "Sync error"}) + cron.running
          = cron.ticks

\* A tick after a failed response and a thrown error, its request in flight.
C24_Witness ==
    /\ Count(cron.log, {"Sync failed"}) > 0
    /\ Count(cron.log, {"Sync error"}) > 0
    /\ cron.ticks = 3
    /\ cron.running = 1
    /\ cron.log[Len(cron.log)] = "Running sync"

(***************************************************************************)
(* doSync of the dashboard page: the auto-sync effect and the sync button  *)
(* call it; syncingRef guards the fetch of /api/sync.                       *)
(***************************************************************************)
MaxSyncCalls == 5

Released(status) ==
    [syncFetch EXCEPT !.inFlight = @ - 1, !.phase = "none", !.syncStatus = status]

\* A mutant of doSync without the check of syncingRef.
DoSyncUnguarded(caller) ==
    /\ syncFetch.issued + syncFetch.skipped < MaxSyncCalls
    /\ syncingRef' = TRUE
    /\ syncFetch' = [syncFetch EXCEPT !.issued = @ + 1, !.inFlight = @ + 1,
                                      !.phase = "fetching", !.syncStatus = "none"]
    /\ UNCHANGED <<ingestVars, cacheVars, explore, win, overview, model_prices,
                   authVars, cron, loads, shown, settingsVars>>

\* doSync up to its fetch: it returns at once while a sync is running,
\* otherwise it takes the flag, arms the timeout and issues the request.
DoSync(caller) ==
    /\ syncFetch.issued + syncFetch.skipped < MaxSyncCalls
    /\ IF syncingRef
       THEN /\ syncFetch' = [syncFetch EXCEPT !.skipped = @ + 1]
            /\ UNCHANGED syncingRef
       ELSE /\ syncingRef' = TRUE
            /\ syncFetch' = [syncFetch EXCEPT !.issued = @ + 1, !.inFlight = @ + 1,
                                              !.phase = "fetching", !.syncStatus = "none"]
    /\ UNCHANGED <<ingestVars, cacheVars, explore, win, overview, model_prices,
                   authVars, cron, loads, shown, settingsVars>>

\* The response arrives: clearTimeout, then res.json() is awaited.
SyncRespond(ok) ==
    /\ syncFetch.phase = "fetching"
    /\ syncFetch' = [syncFetch EXCEPT !.phase = "reading", !.resOk = ok]
    /\ UNCHANGED syncingRef
    /\ UNCHANGED <<ingestVars, cacheVars, explore, win, overview, model_prices,
                   authVars, cron, loads, shown, settingsVars>>

\* The fetch rejects, by the timeout's abort or by a network error: catch,
\* then finally.
SyncReject(aborted) ==
    /\ syncFetch.phase = "fetching"
    /\ syncFetch' = Released(IF aborted THEN "Sync timeout" ELSE "Sync failed")
    /\ syncingRef' = FALSE
    /\ UNCHANGED <<ingestVars, cacheVars, explore, win, overview, model_prices,
                   authVars, cron, loads, shown, settingsVars>>

\* res.json() settles: the status of the response decides the message, a
\* body that does not parse goes to the catch; then finally.
SyncBody(parsed) ==
    /\ syncFetch.phase = "reading"
    /\ syncFetch' = Released(IF parsed /\ syncFetch.resOk THEN "Synced" ELSE "Sync failed")
    /\ syncingRef' = FALSE
    /\ UNCHANGED <<ingestVars, cacheVars, explore, win, overview, model_prices,
                   authVars, cron, loads, shown, settingsVars>>

NextSync ==
    \/ \E caller \in {"auto", "button"} : DoSync(caller)
    \/ \E ok \in BOOLEAN : SyncRespond(ok)
    \/ \E aborted \in BOOLEAN : SyncReject(aborted)
    \/ \E parsed \in BOOLEAN : SyncBody(parsed)

SpecSync == InitCron /\ [][NextSync]_vars

\* C27: at most one /api/sync request of the page is in flight; a doSync call
\* made while one is running issues none; and the flag is held exactly while
\* a request is in flight, so it is released however the request ended.
C27_OneSyncInFlight ==
    /\ syncFetch.inFlight \in {0, 1}
    /\ syncingRef <=> (syncFetch.inFlight = 1)
    /\ (syncFetch.phase = "none") <=> (syncFetch.inFlight = 0)
    /\ syncFetch.syncStatus # "none" => ~syncingRef

\* A third sync is running, after two that ended and a call that was skipped.
C27_Witness ==
    /\ syncFetch.skipped > 0
    /\ syncFetch.issued = 3
    /\ syncFetch.inFlight = 1
    /\ syncingRef

(***************************************************************************)
(* The loadOverview effect of the dashboard page.  shown is the state the  *)
(* page displays (from: the request that wrote it last) with the query     *)
(* parameters; loads holds one entry per request the effect has issued.    *)
(***************************************************************************)
MaxLoads == 4
MaxParams == 3
LoadPages == {1, 2}

Latest == Len(loads)
Deps == [params |-> shown.params, page |-> shown.currentPage]

\* The cleanup of the effect: active = false; controller.abort().
Cleanup(runs) == [i \in 1..Len(runs) |-> [runs[i] EXCEPT !.active = FALSE]]

\* What a run of the effect writes: the overview of its response or an error.
Written(i, data, error, page) ==
    [shown EXCEPT !.from = i, !.overview = data, !.overviewError = error, !.currentPage = page]

\* The user changes the range, a filter or the page, or a sync bumps
\* refreshTrigger.
ChangeParams(page) ==
    /\ shown.params < MaxParams
    /\ shown' = [shown EXCEPT !.params = @ + 1, !.currentPage = page]
    /\ UNCHANGED loads
    /\ UNCHANGED <<ingestVars, cacheVars, explore, win, overview, model_prices,
                   authVars, cron, syncingRef, syncFetch, settingsVars>>

\* The effect runs for changed dependencies: the cleanup of the previous run,
\* then either the early return (custom range without its dates) or a new
\* controller and a new request.
EffectRun(issues) ==
    /\ IF Latest = 0 THEN TRUE ELSE loads[Latest].deps # Deps
    /\ issues => Latest < MaxLoads
    /\ loads' = IF issues
                THEN Append(Cleanup(loads),
                            [active |-> TRUE, deps |-> Deps, state |-> "fetching"])
                ELSE Cleanup(loads)
    /\ UNCHANGED shown
    /\ UNCHANGED <<ingestVars, cacheVars, explore, win, overview, model_prices,
                   authVars, cron, syncingRef, syncFetch, settingsVars>>

\* await fetch resolves: a response that is not ok is shown as an error if
\* the run is still active; an ok response goes on to res.json().
LoadRespond(i, ok) ==
    /\ i \in 1..Latest
    /\ loads[i].state = "fetching"
    /\ loads' = [loads EXCEPT ![i].state = IF ok THEN "reading" ELSE "done"]
    /\ shown' = IF ~ok /\ loads[i].active
                THEN Written(i, 0, TRUE, shown.currentPage) ELSE shown
    /\ UNCHANGED <<ingestVars, cacheVars, explore, win, overview, model_prices,
                   authVars, cron, syncingRef, syncFetch, settingsVars>>

\* await fetch rejects, with the AbortError of the cleanup or a network error.
LoadReject(i, aborted) ==
    /\ i \in 1..Latest
    /\ loads[i].state = "fetching"
    /\ aborted => ~loads[i].active
    /\ loads' = [loads EXCEPT ![i].state = "done"]
    /\ shown' = IF loads[i].active /\ ~aborted
                THEN Written(i, 0, TRUE, shown.currentPage) ELSE shown
    /\ UNCHANGED <<ingestVars, cacheVars, explore, win, overview, model_prices,
                   authVars, cron, syncingRef, syncFetch, settingsVars>>

\* A mutant of the effect without the checks of active.
LoadBodyUnchecked(i, parsed, page) ==
    /\ i \in 1..Latest
    /\ loads[i].state = "reading"
    /\ loads' = [loads EXCEPT ![i].state = "done"]
    /\ shown' = IF parsed THEN Written(i, i, FALSE, page)
                ELSE Written(i, 0, TRUE, shown.currentPage)
    /\ UNCHANGED <<ingestVars, cacheVars, explore, win, overview, model_prices,
                   authVars, cron, syncingRef, syncFetch, settingsVars>>

\* await res.json() settles: the data of an active run is displayed, with
\* the page its meta names; a body that fails to parse is an error.
LoadBody(i, parsed, page) ==
    /\ i \in 1..Latest
    /\ loads[i].state = "reading"
    /\ loads' = [loads EXCEPT ![i].state = "done"]
    /\ shown' = IF ~loads[i].active THEN shown
                ELSE IF parsed THEN Written(i, i, FALSE, page)
                ELSE Written(i, 0, TRUE, shown.currentPage)
    /\ UNCHANGED <<ingestVars, cacheVars, explore, win, overview, model_prices,
                   authVars, cron, syncingRef, syncFetch, settingsVars>>

NextLoad ==
    \/ \E page \in LoadPages : ChangeParams(page)
    \/ \E issues \in BOOLEAN : EffectRun(issues)
    \/ \E i \in 1..MaxLoads, ok \in BOOLEAN : LoadRespond(i, ok)
    \/ \E i \in 1..MaxLoads, aborted \in BOOLEAN : LoadReject(i, aborted)
    \/ \E i \in 1..MaxLoads, parsed \in BOOLEAN, page \in LoadPages : LoadBody(i, parsed, page)

SpecLoad == InitCron /\ [][NextLoad]_vars

Display(s) == <<s.from, s.overview, s.overviewError>>

\* C28: a request superseded by a change of the parameters is aborted, and
\* its response or error never changes what is displayed: whatever is
\* displayed was written by the request that was the most recently issued
\* one, and still current, at that moment.
C28_LatestRequestOnly ==
    [][/\ \A i \in 1..(Len(loads') - 1) : ~loads'[i].active
       /\ Display(shown') # Display(shown) =>
             /\ shown'.from = Latest
             /\ loads[Latest].active
             /\ shown'.overview \in {0, Latest}
      ]_vars

\* The first request was superseded while in flight and has not settled yet;
\* the data of the second request is displayed.
C28_Witness ==
    /\ Latest = 2
    /\ loads[1].state = "fetching"
    /\ ~loads[1].active
    /\ loads[2].state = "done"
    /\ shown.from = 2
    /\ shown.overview = 2

(***************************************************************************)
(* The Price Configuration API next to GET /api/overview.  getOverview     *)
(* awaits its price query with its other queries, so an upsert may         *)
(* complete while an overview request is in flight.                         *)
(***************************************************************************)
MaxPriceWrites == 2    \* upserts and deletes of one model

PriceInputs == {Price("m1", 10, 1, 50), Price("m1", 25, 0, 100), Price("m2", 40, 4, 200)}

PricedModels == {ModelNames[i] : i \in 1..Len(ModelNames)}

HasRow(table, m) == \E i \in 1..Len(table) : table[i].model = m

\* upsert(ModelPrice): insert-or-replace keyed by the exact model string.
Upsert(table, row) ==
    IF HasRow(table, row.model)
    THEN [i \in 1..Len(table) |-> IF table[i].model = row.model THEN row ELSE table[i]]
    ELSE Append(table, row)

\* delete(model)
Remove(table, m) ==
    LET Other(r) == r.model # m
    IN SelectSeq(table, Other)

\* POST /api/prices returns ok.
PriceUpsert(row) ==
    /\ lastUpsert[row.model].n < MaxPriceWrites
    /\ model_prices' = Upsert(model_prices, row)
    /\ lastUpsert' = [lastUpsert EXCEPT ![row.model] = [n |-> @.n + 1, row |-> row]]
    /\ UNCHANGED <<ingestVars, cacheVars, explore, win, overview,
                   authVars, cron, pageVars, pending, prices, edit>>

\* DELETE /api/prices returns ok.
PriceDelete(m) ==
    /\ lastUpsert[m].n < MaxPriceWrites
    /\ HasRow(model_prices, m)
    /\ model_prices' = Remove(model_prices, m)
    /\ lastUpsert' = [lastUpsert EXCEPT ![m] = [n |-> @.n + 1, row |-> None]]
    /\ UNCHANGED <<ingestVars, cacheVars, explore, win, overview,
                   authVars, cron, pageVars, pending, prices, edit>>

\* GET /api/overview arrives and getOverview starts its queries.
OverviewArrive(req) ==
    /\ IF pending = None THEN TRUE ELSE pending.pc = "done"
    /\ pending' = [pc |-> "querying", req |-> req, priceRows |-> <<>>,
                   seen |-> lastUpsert, atResponse |-> lastUpsert]
    /\ UNCHANGED <<ingestVars, cacheVars, explore, win, overview, model_prices,
                   authVars, cron, pageVars, lastUpsert, prices, edit>>

\* pricePromise: db.select().from(modelPrices)
OverviewReadPrices ==
    /\ pending # None
    /\ pending.pc = "querying"
    /\ pending' = [pending EXCEPT !.pc = "priced", !.priceRows = model_prices]
    /\ UNCHANGED <<ingestVars, cacheVars, explore, win, overview, model_prices,
                   authVars, cron, pageVars, lastUpsert, prices, edit>>

\* Promise.all settles and the response is sent.
OverviewRespond ==
    /\ pending # None
    /\ pending.pc = "priced"
    /\ LET req == pending.req
           w == ResolveWindow(win.tz, now, req.days, req.start, req.end)
           filtered == Where(usage_records, w, req.model, req.route)
       IN /\ win' = w
          /\ \E routeOrder \in RouteOrders(ByRouteGroups(filtered)) :
                overview' = Respond(req, "none",
                                    OverviewOf(usage_records, pending.priceRows, w, req,
                                               routeOrder))
    /\ pending' = [pending EXCEPT !.pc = "done", !.atResponse = lastUpsert]
    /\ UNCHANGED <<ingestVars, cacheVars, explore, model_prices,
                   authVars, cron, pageVars, lastUpsert, prices, edit>>

PriceRequests ==
    {[route |-> "", model |-> m, days |-> Undefined, start |-> AbsentDate,
      end |-> AbsentDate, pageSize |-> Undefined, page |-> Undefined] : m \in {"", "m1"}}

InitPrice ==
    /\ usage_records \in {st \in OvStores(4) : Len(st) >= 3}
    /\ sync = [s \in Syncs |-> IdleSync]
    /\ reported = [s \in Syncs |-> 0]
    /\ lastRun = None
    /\ cache = <<>>
    /\ now = WinToday * DAY_MS + 9 * (DAY_MS \div 24)
    /\ query = [q \in Queries |-> IdleQuery]
    /\ lastClear = NoClear
    /\ lastResp = NoResp
    /\ explore = None
    /\ win = NoWindow(FixedZone(0))
    /\ overview = None
    /\ model_prices \in OvPriceTables
    /\ PASSWORD = <<"a">>
    /\ InitAuth
    /\ cron = IdleCron
    /\ syncingRef = FALSE
    /\ syncFetch = NoFetch
    /\ loads = <<>>
    /\ shown = NoShown
    /\ prices = <<>>
    /\ edit = IdleEdit
    /\ lastUpsert = [m \in PricedModels |-> [n |-> 0, row |-> None]]
    /\ pending = None

NextPrice ==
    \/ \E row \in PriceInputs : PriceUpsert(row)
    \/ \E m \in PricedModels : PriceDelete(m)
    \/ \E req \in PriceRequests : OverviewArrive(req)
    \/ OverviewReadPrices
    \/ OverviewRespond

SpecPrice == InitPrice /\ [][NextPrice]_vars

\* The tokens of the selected rows with the indexes S.
TokensOf(S) ==
    LET Sum(f) == SumSeq([i \in 1..Len(usage_records) |->
                             IF i \in S THEN usage_records[i][f] ELSE 0])
    IN [inputTokens |-> Sum("inputTokens"), cachedTokens |-> Sum("cachedTokens"),
        outputTokens |-> Sum("outputTokens")]

\* The last response prices model m at the rates of row: its model row, and
\* every day of a response filtered to m, the past days included.
PricedWith(m, row) ==
    LET models == overview.body.overview.models
        byDay == overview.body.overview.byDay
        RowsOfModel == {i \in Selected : usage_records[i].model = m}
        OnDay(d) == {i \in RowsOfModel : dayExpr(usage_records[i].occurredAt) = d}
    IN /\ \A i \in 1..Len(models) :
             models[i].model = m =>
                models[i].cost = estimateCost(TokensOf(RowsOfModel), m, <<row>>)
       /\ overview.req.model = m =>
             \A i \in 1..Len(byDay) :
                byDay[i].cost = ToFixed(estimateCost(TokensOf(OnDay(byDay[i].label)),
                                                     m, <<row>>), CENT)

Responded == pending # None /\ pending.pc = "done" /\ Answered

EditModels == <<"m1", "m2", "m3">>     \* in localeCompare order

EditPayloads == {Price("m1", 10, 1, 50), Price("m2", 10, 1, 50), Price("m3", 25, 0, 100)}

EditTables == {<<Price("m1", 25, 0, 100)>>,
               <<Price("m1", 25, 0, 100), Price("m2", 40, 4, 200)>>}

\* How a request to /api/prices may end: ok, a response that is not ok, or a
\* rejected fetch; only an ok request has changed the table.
EditOutcomes == {"ok", "notOk", "error"}

\* [...updated, payload].sort((a, b) => a.model.localeCompare(b.model))
RECURSIVE SortByModel(_, _)
SortByModel(list, k) ==
    IF k > Len(EditModels) THEN <<>>
    ELSE LET Named(r) == r.model = EditModels[k]
         IN SelectSeq(list, Named) \o SortByModel(list, k + 1)

\* The user saves the edit form of the row of model old with payload.
EditStart(old, payload) ==
    /\ edit.pc = "idle"
    /\ HasRow(prices, old)
    /\ edit' = [pc |-> IF old # payload.model THEN "deleting" ELSE "saving",
                editing |-> old, payload |-> payload, before |-> model_prices,
                editStatus |-> "none"]
    /\ UNCHANGED <<ingestVars, cacheVars, explore, win, overview, model_prices,
                   authVars, cron, pageVars, lastUpsert, pending, prices>>

\* The DELETE of the old model, sent when the model name was changed.
EditDelete(outcome) ==
    /\ edit.pc = "deleting"
    /\ model_prices' = IF outcome = "ok" THEN Remove(model_prices, edit.editing)
                       ELSE model_prices
    /\ edit' = CASE outcome = "ok" -> [edit EXCEPT !.pc = "saving"]
                 [] outcome = "notOk" -> [edit EXCEPT !.pc = "done",
                                                      !.editStatus = "Failed to update"]
                 [] OTHER -> [edit EXCEPT !.pc = "done", !.editStatus = "Request failed"]
    /\ UNCHANGED <<ingestVars, cacheVars, explore, win, overview,
                   authVars, cron, pageVars, lastUpsert, pending, prices>>

\* The POST of the payload; on ok the list drops the old and the new model's
\* rows, takes the payload and is sorted.
EditSave(outcome) ==
    /\ edit.pc = "saving"
    /\ model_prices' = IF outcome = "ok" THEN Upsert(model_prices, edit.payload)
                       ELSE model_prices
    /\ prices' = IF outcome = "ok"
                 THEN LET Kept(r) == r.model # edit.editing /\ r.model # edit.payload.model
                      IN SortByModel(Append(SelectSeq(prices, Kept), edit.payload), 1)
                 ELSE prices
    /\ edit' = CASE outcome = "ok" -> [edit EXCEPT !.pc = "done", !.editStatus = "saved"]
                 [] outcome = "notOk" -> [edit EXCEPT !.pc = "done", !.editStatus = "Save failed"]
                 [] OTHER -> [edit EXCEPT !.pc = "done", !.editStatus = "Request failed"]
    /\ UNCHANGED <<ingestVars, cacheVars, explore, win, overview,
                   authVars, cron, pageVars, lastUpsert, pending>>

\* The modal is closed, or left open for another try.
EditClose ==
    /\ edit.pc = "done"
    /\ edit' = IdleEdit
    /\ UNCHANGED <<ingestVars, cacheVars, explore, win, overview, model_prices,
                   authVars, cron, pageVars, lastUpsert, pending, prices>>

InitEdit ==
    /\ InitIngest
    /\ InitCache
    /\ explore = None
    /\ win = None
    /\ overview = None
    /\ model_prices \in EditTables
    /\ PASSWORD = <<"a">>
    /\ InitAuth
    /\ cron = IdleCron
    /\ syncingRef = FALSE
    /\ syncFetch = NoFetch
    /\ loads = <<>>
    /\ shown = NoShown
    /\ prices = model_prices
    /\ edit = IdleEdit
    /\ lastUpsert = None
    /\ pending = None

NextEdit ==
    \/ \E k \in 1..Len(EditModels), payload \in EditPayloads : EditStart(EditModels[k], payload)
    \/ \E outcome \in EditOutcomes : EditDelete(outcome)
    \/ \E outcome \in EditOutcomes : EditSave(outcome)
    \/ EditClose

SpecEdit == InitEdit /\ [][NextEdit]_vars

PriceRows(table) == {table[i] : i \in 1..Len(table)}

\* C30: when handleEditSave has finished an edit that changed the model
\* name, the price table either holds the payload and no row of the old
\* model, its other rows unchanged, or is as it was before; and the list
\* shown holds the rows of the table.
C30_RenameAllOrNothing ==
    (edit.pc = "done" /\ edit.editing # edit.payload.model) =>
       /\ \/ model_prices = edit.before
          \/ /\ edit.payload \in PriceRows(model_prices)
             /\ ~HasRow(model_prices, edit.editing)
             /\ \A r \in PriceRows(edit.before) :
                   r.model \notin {edit.editing, edit.payload.model} =>
                      r \in PriceRows(model_prices)
       /\ PriceRows(prices) = PriceRows(model_prices)

(***************************************************************************)
(* The daily buckets of a relative window: since is now - days * DAY_MS,   *)
(* not a midnight, so the window reaches into days + 1 calendar days.       *)
(***************************************************************************)
ByDayCandidates ==
    LET today == WinToday * DAY
    IN << Usage(today - DAY + 10 * HOUR, "r1", "m1", 1, 1000, 0, 1000, 1),
          Usage(today + 2 * HOUR, "r1", "m1", 1, 2000, 0, 500, 1),
          Usage(today - 2 * DAY + 12 * HOUR, "r1", "m2", 1, 3000, 0, 100, 1),
          Usage(today - DAY + 20 * HOUR, "r2", "m2", 1, 500, 100, 100, 0),
          Usage(today - 3 * DAY, "r1", "m1", 1, 100, 0, 100, 1) >>

RECURSIVE ByDayStores(_)
ByDayStores(n) ==
    IF n = 0 THEN {<<>>}
    ELSE LET shorter == ByDayStores(n - 1)
         IN shorter \cup {Append(st, ByDayCandidates[n]) : st \in shorter}

ByDayRequests ==
    {[route |-> "", model |-> m, days |-> d, start |-> AbsentDate, end |-> AbsentDate,
      pageSize |-> Undefined, page |-> Undefined] :
        m \in {"", "m1"}, d \in {Num(1), Num(2), Undefined}}

InitByDay ==
    /\ usage_records \in ByDayStores(Len(ByDayCandidates))
    /\ sync = [s \in Syncs |-> IdleSync]
    /\ reported = [s \in Syncs |-> 0]
    /\ lastRun = None
    /\ cache = <<>>
    /\ now = WinToday * DAY_MS + 9 * (DAY_MS \div 24)
    /\ query = [q \in Queries |-> IdleQuery]
    /\ lastClear = NoClear
    /\ lastResp = NoResp
    /\ explore = None
    /\ win = NoWindow(FixedZone(0))
    /\ overview = None
    /\ model_prices = <<>>
    /\ InitClient

NextByDay ==
    \E req \in ByDayRequests : GetOverview(req, "none")

SpecByDay == InitByDay /\ [][NextByDay]_vars

\* C29: every calendar day of the grouping time zone on which a selected
\* event occurred has an entry in overview.byDay; the most recent day of a
\* relative window is among them.
C29_EveryDayHasEntry ==
    Answered =>
       \A i \in Selected :
          \E k \in 1..Len(overview.body.overview.byDay) :
             overview.body.overview.byDay[k].label = dayExpr(usage_records[i].occurredAt)

====
